---------------------------- MODULE Spec2Model ----------------------------
(***************************************************************************)
(* A model of the QuaC simulator core:                                     *)
(*   - src/src/solver.c      steady_state / time_step, the stabilization   *)
(*                           row of full_A, the monitor and the events of  *)
(*                           the integrator, the positions the Jacobian    *)
(*                           callback writes;                              *)
(*   - src/python/toolkit.c  the Python binding: initialize / finalize /   *)
(*                           clear, Instance and Circuit objects and their *)
(*                           deallocation;                                 *)
(*   - src/xacc/Utils/Hamiltonian.cpp  the parser of Hamiltonian strings   *)
(*                           and the apply / collect of the terms.         *)
(* Each subsystem has its own specification (SolverSpec, MatrixSpec,       *)
(* InstanceSpec, LifecycleSpec, CircuitSpec, GateNameSpec, IntegratorSpec, *)
(* ParseSpec, ApplySpec) over the shared variables; a subsystem's actions  *)
(* leave the other subsystems' variables unchanged.                        *)
(***************************************************************************)
EXTENDS Integers, Sequences, FiniteSets, TLC

(***************************************************************************)
(* Bounds of the model.                                                    *)
(***************************************************************************)
\* largest total_levels (dimension D of the Hilbert space) a run starts with
MaxLevels == 3
\* largest number of MPI processes (np)
MaxProcs == 2
\* largest number of time-dependent terms registered
MaxTimeDep == 2
\* number of steady_state / time_step / clear calls followed in one behaviour
MaxCalls == 4

VARIABLES
  \* ---- solver.c and the operator globals it reads ----
  np,               \* number of MPI processes; process ids (nid) are 0..np-1
  total_levels,     \* D, the dimension of the Hilbert space
  _lindblad_terms,  \* 0/1: a Lindblad term was added
  _stiff_solver,    \* 0/1: the stiff solver was selected
  _num_time_dep,    \* number of time-dependent terms
  stab_added,       \* solver.c:13, one copy per process: [0..np-1 -> 0..1]
  matrix_assembled, \* solver.c:14
  full_A,           \* row 0 of full_A: [0..D*D-1 -> Int], the values that
                    \* the stabilization code contributes (ADD_VALUES)
  assembled,        \* the matrices that went through MatAssemblyEnd
  alive,            \* the processes that have not called exit()
  blocked,          \* the processes waiting in a collective operation that
                    \* an exited process never enters
  lastS,            \* what the last solver-level call did
  calls,            \* number of solver-level calls so far
  _ts_monitor,      \* solver.c:19, the monitor function set_ts_monitor stored
  _num_quantum_gates, \* number of gates scheduled for the next time_step
  ts,               \* the TS context of the last time_step and what TSSolve
                    \* did with it
  \* ---- toolkit.c ----
  quac_initialized, \* toolkit.c:17
  lastInit,         \* the most recent of initialize() / finalize(), or "none"
  instances,        \* the live quac.Instance objects (QuaCInstance structs)
  create_calls,     \* per Instance: create_qubits calls made, counted to 2
  circuit,          \* the quac.Circuit object the program holds (QuaCCircuit)
  crashed,          \* the interpreter was brought down by undefined behaviour
  lastT,            \* the last call of the Python API, with its arguments
  QuaC_calls,       \* the last two calls made into the library, oldest
                    \* first: "QuaC_initialize" / "QuaC_finalize"
  lastArgv,         \* the argv the last initialize() built from sys.argv
  lastDealloc,      \* what the last tp_dealloc of an Instance destroyed
  \* ---- solver.c: the entries of the matrices ----
  nonzeros,         \* the columns of row 0 of full_A that hold an entry (the
                    \* nonzero pattern the matrix keeps)
  _time_dep_list,   \* per time-dependent term, the operator it multiplies
  \* ---- Hamiltonian.cpp ----
  NDEBUG,           \* the build defines NDEBUG: assert() expands to nothing
  lastParse,        \* the last tryParse(in_expr, in_vars): input and result
  lastJson,         \* the last tryParse(in_jsonString, in_forEachTermFn)
  executor,         \* the functors posted to the executor, oldest first
  lastApply         \* the last apply / collect call on a term

solverVars == <<np, total_levels, _lindblad_terms, _stiff_solver, _num_time_dep,
                stab_added, matrix_assembled, full_A, assembled, alive,
                blocked, lastS, calls, _ts_monitor, _num_quantum_gates, ts>>

toolkitVars == <<quac_initialized, lastInit, instances, create_calls, circuit,
                 crashed, lastT>>

parserVars == <<NDEBUG, lastParse, lastJson, executor, lastApply>>

bindingVars == <<QuaC_calls, lastArgv, lastDealloc>>

matrixVars == <<nonzeros, _time_dep_list>>

vars == <<solverVars, toolkitVars, parserVars, bindingVars, matrixVars>>

(***************************************************************************)
(* solver.c                                                                *)
(***************************************************************************)
Procs == 0 .. (np - 1)

\* dim = total_levels*total_levels: the columns of full_A (solver.c:42)
Columns(D) == 0 .. (D * D - 1)

\* col = i*(total_levels+1) for i in 0..total_levels-1 (solver.c:65-66, 298-299)
StabCols(D) == { i * (D + 1) : i \in 0 .. (D - 1) }

\* The loop of MatSetValue(full_A,row=0,col,v,ADD_VALUES) over the
\* stabilization columns (solver.c:64-69 with v = +1, 297-302 with v = -1).
MatSetValue_StabRow(A, D, v) ==
  [ c \in Columns(D) |-> IF c \in StabCols(D) THEN A[c] + v ELSE A[c] ]

ZeroRow(D) == [ c \in Columns(D) |-> 0 ]

\* every process is running and none waits in a broken collective
Running == alive = Procs /\ blocked = {}

EmptyName == << >>

\* no Python API call was made yet
NoApiCall == [api |-> "none", err |-> "none", obj |-> 0,
              name |-> EmptyName, gate |-> "", qubit1 |-> 0, qubit2 |-> 0, angle |-> 0,
              time |-> 0]

\* sys.argv as PySys_GetObject returns it: NULL when the attribute is
\* missing, otherwise a list
NoList == [present |-> FALSE, items |-> << >>]

PyList(items) == [present |-> TRUE, items |-> items]

\* initialize() has not built an argv yet
NoArgv == [argl |-> NoList, argc |-> 0, reads |-> {}, argv |-> << >>]

\* no Instance was deallocated yet
NoDealloc == [obj |-> 0, allocated |-> 0, destroyed |-> {}]

\* no Circuit object exists
NoCircuit == [exists |-> FALSE, start_time |-> 0, num_gates |-> 0,
              gate_list_size |-> 0, gate_list |-> << >>]

NoCall == [op |-> "none", outcome |-> "none", lindblad |-> 0, stiff |-> 0,
           time_dep |-> 0, stab_before |-> 0, solve_A |-> "none"]

(***************************************************************************)
(* The positions of the matrices time_step and its Jacobian callback       *)
(* write. One system of total_levels levels.                               *)
(***************************************************************************)
\* the operators a time-dependent term multiplies
Operators == {"lowering", "number"}

\* the Lindblad operators add_lin registers
LindbladOperators == {"lowering", "number"}

\* The (row, column) positions of the entries of an operator on D levels:
\* the lowering operator couples level k+1 to level k, the number operator
\* is diagonal with no entry for level 0.
OperatorPositions(op, D) ==
  IF op = "lowering"
  THEN { <<k, k + 1>> : k \in 0 .. (D - 2) }
  ELSE { <<k, k>> : k \in 1 .. (D - 1) }

\* _add_to_PETSc_kron(matrix,a,n_before,my_levels,op_type,position,
\* extra_before,extra_after): the positions of I_extra_before (x) op (x)
\* I_extra_after, for an operator that spans the whole system.
_add_to_PETSc_kron(op, D, extra_before, extra_after) ==
  { << (b * D + p[1]) * extra_after + a, (b * D + p[2]) * extra_after + a >> :
      b \in 0 .. (extra_before - 1), p \in OperatorPositions(op, D),
      a \in 0 .. (extra_after - 1) }

\* the pairs (extra_before, extra_after) time_step zero-fills with,
\* solver.c:358-374
time_step_factors(lind, D) ==
  IF lind # 0 THEN { <<D, 1>>, <<1, D>> } ELSE { <<1, 1>> }

\* the pairs (extra_before, extra_after) the Jacobian callback adds with,
\* solver.c:509-517: the same two for every term, _lindblad_terms is not read
_RHS_factors(D) == { <<D, 1>>, <<1, D>> }

\* the positions one pass over _time_dep_list writes with the given factors
KronPositions(list, D, factors) ==
  UNION { _add_to_PETSc_kron(list[i], D, f[1], f[2]) :
            i \in 1 .. Len(list), f \in factors }

\* solver.c:354-377: the positions of solve_A time_step adds zeros at
time_step_zeroed(list, lind, D) ==
  KronPositions(list, D, time_step_factors(lind, D))

\* _RHS_time_dep_ham(ts,t,X,AA,BB,ctx), solver.c:496-532: BB is zeroed,
\* full_A is copied into it and every term adds its two contributions.
_RHS_time_dep_ham(list, D) ==
  [called |-> TRUE, copied |-> "full_A", factors |-> _RHS_factors(D),
   written |-> KronPositions(list, D, _RHS_factors(D))]

\* solver.c:353-399: the Jacobian the TS is given. With time-dependent terms
\* AA duplicates solve_A and the callback rebuilds it for every evaluation.
time_step_jacobian(t, list, lind, D) ==
  IF Len(list) # 0
  THEN [t EXCEPT !.jacobian = "_RHS_time_dep_ham",
                 !.AA = IF lind # 0 THEN "full_A" ELSE "ham_A",
                 !.zeroed = time_step_zeroed(list, lind, D)]
  ELSE [t EXCEPT !.jacobian = "TSComputeRHSJacobianConstant"]

\* the columns of row 0 among a set of positions
Row0(positions) == { p[2] : p \in { q \in positions : q[1] = 0 } }

\* The entries of row 0 of full_A a Lindblad term L contributes outside the
\* diagonal, from L rho L^dagger: column k*(D+1) for every level k that L
\* takes to level 0.
add_lin_row0(op, D) ==
  { p[2] * (D + 1) : p \in { q \in OperatorPositions(op, D) : q[1] = 0 } }

\* the columns of row 0 of full_A steady_state adds a value at: the
\* stabilization (solver.c:56-69) and the diagonal zero (solver.c:97-106)
steady_state_nonzeros(flag, D) ==
  (IF flag = 0 THEN StabCols(D) ELSE {}) \cup {0}

\* the columns of row 0 of full_A time_step adds a value at: the removal of
\* the stabilization (solver.c:290-304) and, when solve_A is full_A, the
\* diagonal zero (solver.c:306-316) and the zeros of the time-dependent
\* terms (solver.c:354-377)
time_step_nonzeros(flag, list, lind, D) ==
  (IF flag # 0 THEN StabCols(D) ELSE {})
    \cup (IF lind # 0 THEN {0} \cup Row0(time_step_zeroed(list, lind, D)) ELSE {})

(***************************************************************************)
(* The integrator of time_step: the TS context, its monitor, its event     *)
(* handler and the vector it evolves.                                      *)
(***************************************************************************)
\* largest number of accepted steps of one TSSolve
MaxSteps == 2

RECURSIVE SumSeq(_)
SumSeq(q) == IF q = << >> THEN 0 ELSE Head(q) + SumSeq(Tail(q))

\* The vector x handed to time_step, in Liouville mode the flattened density
\* matrix. Kept: its diagonal v (the populations, level l at index l+1) and
\* den2, the square of the common real divisor: rho = v / sqrt(den2). The
\* off-diagonal entries are zero in every vector below.
Vec(v, den2) == [v |-> v, den2 |-> den2]

\* the basis states |k><k|, k = 0..D-1
StateVectors(D) ==
  { Vec([l \in 1 .. D |-> IF l = k THEN 1 ELSE 0], 1) : k \in 1 .. D }

\* tr rho = VecTraceNum / sqrt(den2)
VecTraceNum(U) == SumSeq(U.v)

\* the square of the 2-norm of U is VecNorm2Num / den2
VecNorm2Num(U) == SumSeq([l \in 1 .. Len(U.v) |-> U.v[l] * U.v[l]])

\* VecNormalize(U,NULL): U is divided by its 2-norm.
VecNormalize(U) == Vec(U.v, VecNorm2Num(U))

\* the Jacobian callback has not run
NoRHS == [called |-> FALSE, copied |-> "none", factors |-> {}, written |-> {}]

\* no TS context exists
NoTS == [created |-> FALSE, monitor |-> "NULL", mctx |-> "NULL",
         event |-> "none", postevent |-> "none", direction |-> 0,
         steps |-> 0, U |-> Vec(<< >>, 1), monitor_calls |-> << >>,
         postevent_calls |-> 0, gates_scheduled |-> 0,
         gates_applied |-> << >>, jacobian |-> "none", AA |-> "none",
         zeroed |-> {}, rhs |-> NoRHS]

\* TSCreate(PETSC_COMM_WORLD,&ts), solver.c:333
TSCreate == [NoTS EXCEPT !.created = TRUE]

\* TSMonitorSet(ts,monitor,mctx,NULL): the monitor and the context it will
\* be called with.
TSMonitorSet(t, monitor, mctx) == [t EXCEPT !.monitor = monitor, !.mctx = mctx]

\* TSSetEventHandler(ts,nevents,direction,terminate,eventhandler,postevent,
\* ctx): a TS holds one event context; the call installs a new one in place
\* of the context the TS had.
TSSetEventHandler(t, direction, eventhandler, postevent) ==
  [t EXCEPT !.event = eventhandler, !.postevent = postevent,
            !.direction = direction]

\* solver.c:340-342: the monitor is registered with a NULL context
time_step_monitor(t, monitor) ==
  IF monitor # "NULL" THEN TSMonitorSet(t, monitor, "NULL") ELSE t

\* solver.c:433-448: the two "if" blocks that set up event handling
time_step_events(t, gates, lind) ==
  LET t1 == IF gates > 0
            THEN TSSetEventHandler(t, -1, "_QG_EventFunction",
                                   "_QG_PostEventFunction")
            ELSE t
  IN IF lind # 0
     THEN TSSetEventHandler(t1, 0, "_Normalize_EventFunction",
                            "_Normalize_PostEventFunction")
     ELSE t1

\* _Normalize_EventFunction(ts,t,U,fvalue,ctx), solver.c:538-546:
\* fvalue[0] = 0 whatever the time and the vector
_Normalize_EventFunction(time, U) == 0

\* After an accepted step, the event of the TS triggers when its function is
\* zero at the new time and vector.
TSEventTriggered(t, time, U) ==
  /\ t.event = "_Normalize_EventFunction"
  /\ _Normalize_EventFunction(time, U) = 0

\* Fault variant of _Normalize_PostEventFunction: the vector is handed back
\* as it came.
_Normalize_PostEventFunction_skip(U) == U

\* _Normalize_PostEventFunction(ts,...,U,...), solver.c:548-553:
\* VecNormalize(U,NULL), then TSSetSolution(ts,U): the vector the TS goes on
\* with is the normalized one.
_Normalize_PostEventFunction(U) == VecNormalize(U)

\* One accepted step of the integrator. With Lindblad terms the step is a
\* trace-preserving linear map of the populations: half of the population
\* of every excited level decays to the level below (integer entries:
\* v is doubled and den2 multiplied by 4). Without, the populations stay.
TSStep(U, lind) ==
  IF lind = 0 THEN U
  ELSE LET D == Len(U.v)
           up(l) == IF l < D THEN U.v[l + 1] ELSE 0
       IN Vec([l \in 1 .. D |-> IF l = 1 THEN 2 * U.v[l] + up(l)
                                ELSE U.v[l] + up(l)],
              4 * U.den2)

\* the post-event function the TS holds, applied to the vector of the step
TSPostEvent(t, stepped) ==
  IF t.postevent = "_Normalize_PostEventFunction"
  THEN _Normalize_PostEventFunction(stepped)
  ELSE stepped

\* one accepted step followed by the event handling of the TS
TSStepEvent(t, U, k, stepped) ==
  IF TSEventTriggered(t, k, stepped) THEN TSPostEvent(t, stepped) ELSE stepped

\* The vector after k accepted steps.
RECURSIVE TSEvolve(_, _, _, _)
TSEvolve(t, U, k, lind) ==
  IF k = 0 THEN U
  ELSE TSStepEvent(t, U, k, TSStep(TSEvolve(t, U, k - 1, lind), lind))

\* the number of steps of a run after which the event triggered
TSEventCount(t, x, steps, lind) ==
  Cardinality({ k \in 1 .. steps :
                  TSEventTriggered(t, k, TSStep(TSEvolve(t, x, k - 1, lind), lind)) })

\* The gate events of one run, in the order they trigger: gate k of the
\* schedule has time k, a step advances the time by 1, and the gate event
\* function is the time until the next scheduled gate, so the event
\* triggers once per gate whose time the run reaches; the post-event
\* function applies that gate and moves to the next. The run is not
\* terminated (terminate is PETSC_FALSE, solver.c:436).
TSGateEvents(t, gates, steps) ==
  IF t.event = "_QG_EventFunction"
  THEN [k \in 1 .. (IF gates < steps THEN gates ELSE steps) |-> k]
  ELSE << >>

\* TSSolve(ts,x), solver.c:450: steps accepted steps; the monitor, if one is
\* set, is called for step 0 and after every step with the context given
\* to TSMonitorSet; the Jacobian callback is evaluated with the
\* time-dependent terms registered.
TSSolve(t, x, steps, lind, gates, list, D) ==
  [t EXCEPT !.steps = steps,
            !.U = TSEvolve(t, x, steps, lind),
            !.postevent_calls = TSEventCount(t, x, steps, lind),
            !.gates_scheduled = gates,
            !.gates_applied = TSGateEvents(t, gates, steps),
            !.rhs = IF t.jacobian = "_RHS_time_dep_ham"
                    THEN _RHS_time_dep_ham(list, D) ELSE NoRHS,
            !.monitor_calls =
               IF t.monitor = "NULL" THEN << >>
               ELSE [k \in 1 .. (steps + 1) |->
                       [fn |-> t.monitor, step |-> k - 1, time |-> k - 1,
                        ctx |-> t.mctx]]]

\* the monitor functions a C program hands to set_ts_monitor; ts_monitor of
\* toolkit.c is static and toolkit.c never hands it over
Monitors == {"user_monitor"}


(***************************************************************************)
(* Hamiltonian.cpp: the values the parser works with                       *)
(***************************************************************************)
\* A HamiltonianTerm object. kind is "static" (HamiltonianTimeIndependentTerm),
\* "timedep" (HamiltonianTimeDependentTerm) or "sum" (HamiltonianSumTerm);
\* the members a kind does not have are left empty. ops is m_operators, a
\* sequence of <<operator, qubit index>> pairs; terms is m_terms.
Term(kind, channel, coef, ops, terms) ==
  [kind |-> kind, channel |-> channel, coef |-> coef, ops |-> ops,
   terms |-> terms]

\* a null std::unique_ptr<HamiltonianTerm>
nullptr == Term("null", << >>, 0, << >>, << >>)

\* assert() failed in a build without NDEBUG: the process aborted
aborted == Term("abort", << >>, 0, << >>, << >>)

NoParse == [input |-> << >>, result |-> nullptr]

NoJson == [h_str |-> << >>, ok |-> TRUE, handed |-> << >>]

NoApply == [op |-> "none", term |-> nullptr, outcome |-> "none",
            posted_before |-> 0, staticH |-> << >>, ctrlH |-> << >>]

SolverInit ==
  /\ np \in 1 .. MaxProcs
  /\ total_levels \in 2 .. MaxLevels
  /\ _lindblad_terms = 0
  /\ _stiff_solver \in {0, 1}
  /\ _num_time_dep = 0
  /\ stab_added = [p \in 0 .. (np - 1) |-> 0]
  /\ matrix_assembled = 0
  /\ full_A = ZeroRow(total_levels)
  /\ assembled = {}
  /\ alive = 0 .. (np - 1)
  /\ blocked = {}
  /\ lastS = NoCall
  /\ calls = 0
  /\ _ts_monitor = "NULL"
  /\ _num_quantum_gates = 0
  /\ ts = NoTS
  /\ quac_initialized = 0
  /\ lastInit = "none"
  /\ instances = << >>
  /\ create_calls = << >>
  /\ circuit = NoCircuit
  /\ crashed = FALSE
  /\ lastT = NoApiCall
  /\ NDEBUG = FALSE
  /\ lastParse = NoParse
  /\ lastJson = NoJson
  /\ executor = << >>
  /\ lastApply = NoApply
  /\ QuaC_calls = << >>
  /\ lastArgv = NoArgv
  /\ lastDealloc = NoDealloc
  /\ nonzeros = {}
  /\ _time_dep_list = << >>

Call(op, outcome, solve_A) ==
  [op |-> op, outcome |-> outcome, lindblad |-> _lindblad_terms,
   stiff |-> _stiff_solver, time_dep |-> _num_time_dep,
   stab_before |-> stab_added[0], solve_A |-> solve_A]

\* steady_state, "if (!stab_added)": process 0 adds +1.0 to row 0 at the
\* stabilization columns (solver.c:56-69).
steady_state_row0(A, flag, D) ==
  IF flag = 0 THEN MatSetValue_StabRow(A, D, 1) ELSE A

\* steady_state(x), solver.c:29-216, all processes in lockstep.
steady_state ==
  /\ Running
  /\ calls < MaxCalls
  /\ calls' = calls + 1
  /\ IF _lindblad_terms = 0
     THEN \* solver.c:47-55: process 0 alone calls exit(0); every other process
          \* goes on (sets stab_added, solver.c:93) and enters the collective
          \* MatAssemblyBegin (solver.c:111), which process 0 never enters.
          /\ alive' = alive \ {0}
          /\ blocked' = alive \ {0}
          /\ stab_added' = [p \in Procs |-> IF p = 0 THEN stab_added[p] ELSE 1]
          /\ lastS' = Call("steady_state", "exit", "ham_A")
          /\ UNCHANGED <<full_A, assembled, matrix_assembled, nonzeros>>
     ELSE /\ full_A' = steady_state_row0(full_A, stab_added[0], total_levels)
          /\ nonzeros' = nonzeros \cup
               steady_state_nonzeros(stab_added[0], total_levels)
          /\ stab_added' = [p \in Procs |-> 1]
          /\ assembled' = assembled \cup {"full_A"}
          /\ matrix_assembled' = 1
          /\ lastS' = Call("steady_state", "solved", "full_A")
          /\ UNCHANGED <<alive, blocked>>
  /\ UNCHANGED <<np, total_levels, _lindblad_terms, _stiff_solver, _num_time_dep,
                 _ts_monitor, _num_quantum_gates, ts, _time_dep_list>>
  /\ UNCHANGED <<toolkitVars, parserVars, bindingVars>>

\* Fault variant of time_step_rejected: the Lindblad branch forgets its
\* stiff-solver check.
time_step_rejected_schrodinger_only(lind, stiff, ntd) ==
  lind = 0 /\ ntd # 0 /\ stiff # 0

\* time_step's two rejections (solver.c:249-252 and 259-262): exit(0) on
\* every process before anything else is done.
time_step_rejected(lind, stiff, ntd) ==
  IF lind # 0 THEN stiff # 0 ELSE (ntd # 0 /\ stiff # 0)

\* time_step, "if (stab_added)": process 0 adds -1.0 to row 0 at the
\* stabilization columns (solver.c:290-304). The flag is not written.
time_step_row0(A, flag, D) ==
  IF flag # 0 THEN MatSetValue_StabRow(A, D, -1) ELSE A

\* solve_A and, on the constant-Jacobian path, solve_stiff_A are assembled
\* (solver.c:378-380, 390-395).
time_step_assembles(lind, stiff, ntd) ==
  {IF lind # 0 THEN "full_A" ELSE "ham_A"}
    \cup (IF ntd = 0 /\ stiff # 0 THEN {"ham_stiff_A"} ELSE {})

\* time_step(x,time_max,dt,steps_max), solver.c:231-474, all processes in
\* lockstep.
time_step(x, steps) ==
  /\ Running
  /\ calls < MaxCalls
  /\ calls' = calls + 1
  /\ IF time_step_rejected(_lindblad_terms, _stiff_solver, _num_time_dep)
     THEN /\ alive' = {}
          /\ lastS' = Call("time_step", "exit", "none")
          /\ UNCHANGED <<full_A, assembled, blocked, ts, nonzeros>>
     ELSE /\ full_A' = time_step_row0(full_A, stab_added[0], total_levels)
          /\ nonzeros' = nonzeros \cup
               time_step_nonzeros(stab_added[0], _time_dep_list,
                                  _lindblad_terms, total_levels)
          /\ assembled' = assembled \cup
               time_step_assembles(_lindblad_terms, _stiff_solver, _num_time_dep)
          /\ lastS' = Call("time_step", "solved",
                           IF _lindblad_terms # 0 THEN "full_A" ELSE "ham_A")
          /\ ts' = TSSolve(time_step_events(
                             time_step_jacobian(
                               time_step_monitor(TSCreate, _ts_monitor),
                               _time_dep_list, _lindblad_terms, total_levels),
                             _num_quantum_gates, _lindblad_terms),
                           x, steps, _lindblad_terms, _num_quantum_gates,
                           _time_dep_list, total_levels)
          /\ UNCHANGED <<alive, blocked>>
  /\ UNCHANGED <<np, total_levels, _lindblad_terms, _stiff_solver, _num_time_dep,
                 stab_added, matrix_assembled, _ts_monitor, _num_quantum_gates,
                 _time_dep_list>>
  /\ UNCHANGED <<toolkitVars, parserVars, bindingVars>>

\* Registering a Lindblad term (add_qubit_decay / add_lin) switches the
\* solver to Liouville mode and adds the term's entries to full_A.
add_lin(op) ==
  /\ Running
  /\ _lindblad_terms' = 1
  /\ nonzeros' = nonzeros \cup add_lin_row0(op, total_levels)
  /\ UNCHANGED <<np, total_levels, _stiff_solver, _num_time_dep, stab_added,
                 matrix_assembled, full_A, assembled, alive, blocked, lastS, calls,
                 _ts_monitor, _num_quantum_gates, ts, _time_dep_list>>
  /\ UNCHANGED <<toolkitVars, parserVars, bindingVars>>

\* Registering a time-dependent term (add_time_dep_term_1/2) on one
\* operator.
add_to_ham_time_dep(op) ==
  /\ Running
  /\ _num_time_dep < MaxTimeDep
  /\ _num_time_dep' = _num_time_dep + 1
  /\ _time_dep_list' = Append(_time_dep_list, op)
  /\ UNCHANGED <<np, total_levels, _lindblad_terms, _stiff_solver, stab_added,
                 matrix_assembled, full_A, assembled, alive, blocked, lastS, calls,
                 _ts_monitor, _num_quantum_gates, ts, nonzeros>>
  /\ UNCHANGED <<toolkitVars, parserVars, bindingVars>>

\* QuaC_clear(): resets the singletons of the simulation (term registry,
\* Lindblad list, time-dependent table, the matrices) without tearing down
\* the linear-algebra library.
QuaC_clear ==
  /\ _lindblad_terms' = 0
  /\ _num_time_dep' = 0
  /\ full_A' = ZeroRow(total_levels)
  /\ assembled' = {}
  /\ nonzeros' = {}
  /\ _time_dep_list' = << >>

\* quac.clear() (toolkit.c:54-58) calls QuaC_clear() and nothing else.
\* stab_added and matrix_assembled are file-scope statics of solver.c
\* (solver.c:13-14); solver.c has no function that resets them, so no code
\* outside steady_state writes them.
quac_clear ==
  /\ Running
  /\ calls < MaxCalls
  /\ calls' = calls + 1
  /\ QuaC_clear
  /\ lastS' = Call("clear", "done", "none")
  /\ UNCHANGED <<np, total_levels, _stiff_solver, stab_added, matrix_assembled,
                 alive, blocked, _ts_monitor, _num_quantum_gates, ts>>
  /\ UNCHANGED <<toolkitVars, parserVars, bindingVars>>

\* the programs of SolverSpec register the lowering operator only
SolverNext ==
  \/ steady_state
  \/ \E x \in StateVectors(total_levels) : time_step(x, 1)
  \/ add_lin("lowering")
  \/ add_to_ham_time_dep("lowering")
  \/ quac_clear

\* the programs of MatrixSpec register any of the operators
MatrixNext ==
  \/ steady_state
  \/ \E x \in StateVectors(total_levels) : time_step(x, 1)
  \/ \E op \in LindbladOperators : add_lin(op)
  \/ \E op \in Operators : add_to_ham_time_dep(op)
  \/ quac_clear

(***************************************************************************)
(* toolkit.c: module state and the Instance type                           *)
(***************************************************************************)
\* largest num_qubits given to an Instance
MaxQubits == 2
\* largest number of live Instance objects
MaxInstances == 1

QubitCounts == -1 .. MaxQubits
\* the ts_monitor argument of quac.Instance: not given, or a callable
Callbacks == {"NULL", "callback"}
LevelCounts == 2 .. MaxLevels

\* The record kept of an API call: its arguments, the gate type add_gate
\* selected for the name, and the error it raised.
ApiCall(api, err, obj, name, gate, qubit1, qubit2, angle, time) ==
  [api |-> api, gate |-> gate, err |-> err, obj |-> obj,
   name |-> name, qubit1 |-> qubit1, qubit2 |-> qubit2, angle |-> angle,
   time |-> time]

Called(api, err, obj) == ApiCall(api, err, obj, EmptyName, "", 0, 0, 0, 0)

\* the values of sys.argv a program runs with: the attribute deleted, the
\* empty list (an embedded interpreter), and lists of one and two strings
SysArgvs ==
  { NoList, PyList(<< >>), PyList(<<"prog">>), PyList(<<"prog", "-x">>) }

\* sys.argv of a script started from the command line
ProgramArgvs == { PyList(<<"prog">>) }

\* argc of quac_initialize, toolkit.c:25-28
initialize_argc(argl) ==
  IF argl.present /\ Len(argl.items) > 0 THEN Len(argl.items) ELSE 1

\* the list indices PyList_GET_ITEM(argl, i) reads in the loop of
\* toolkit.c:32-38, which runs from i = 0
initialize_reads(argl) == 0 .. (initialize_argc(argl) - 1)

\* the reads that have no list element behind them
initialize_bad_reads(argl) ==
  { i \in initialize_reads(argl) : ~argl.present \/ i >= Len(argl.items) }

\* argv as it is handed to QuaC_initialize, toolkit.c:30-38: argv[0] is set
\* to "quac" and then every entry, argv[0] included, is overwritten with
\* what the read of sys.argv[i] produced. A read with no element behind it
\* yields an indeterminate pointer.
initialize_argv(argl) ==
  [k \in 1 .. initialize_argc(argl) |->
     IF (k - 1) \in initialize_bad_reads(argl) THEN "indeterminate"
     ELSE argl.items[k]]

\* the last two of the calls made into the library
LastTwo(q) == IF Len(q) <= 2 THEN q ELSE SubSeq(q, Len(q) - 1, Len(q))

\* quac.initialize(), toolkit.c:19-45: argv is built from sys.argv, then
\* QuaC_initialize(argc, argv) is called and the flag is set. A read of a
\* list element that does not exist is undefined behaviour: the interpreter
\* goes down at the read, or the call goes on with what the read produced.
quac_initialize(argl) ==
  /\ ~crashed
  /\ \E fault \in (IF initialize_bad_reads(argl) # {} THEN BOOLEAN ELSE {FALSE}) :
       /\ crashed' = fault
       /\ lastArgv' = [argl |-> argl,
                       argc |-> initialize_argc(argl),
                       reads |-> initialize_reads(argl),
                       argv |-> IF fault THEN << >> ELSE initialize_argv(argl)]
       /\ quac_initialized' = IF fault THEN quac_initialized ELSE 1
       /\ lastInit' = IF fault THEN lastInit ELSE "initialize"
       /\ QuaC_calls' = IF fault THEN QuaC_calls
                        ELSE LastTwo(Append(QuaC_calls, "QuaC_initialize"))
  /\ lastT' = Called("initialize", "none", 0)
  /\ UNCHANGED <<instances, create_calls, circuit, lastDealloc>>
  /\ UNCHANGED <<solverVars, parserVars, matrixVars>>

\* quac.finalize(), toolkit.c:47-52: QuaC_finalize(), then the flag is reset.
quac_finalize ==
  /\ ~crashed
  /\ quac_initialized' = 0
  /\ lastInit' = "finalize"
  /\ QuaC_calls' = LastTwo(Append(QuaC_calls, "QuaC_finalize"))
  /\ lastT' = Called("finalize", "none", 0)
  /\ UNCHANGED <<instances, create_calls, circuit, crashed, lastArgv, lastDealloc>>
  /\ UNCHANGED <<solverVars, parserVars, matrixVars>>

\* Fault variant of QuaCInstance_new_refused: the guard is missing.
QuaCInstance_new_refused_never(initialized) == FALSE

\* QuaCInstance_new's guard, toolkit.c:99-102.
QuaCInstance_new_refused(initialized) == initialized = 0

\* The struct QuaCInstance_new returns, toolkit.c:104-118: num_qubits = 0,
\* qubits = NULL (has_qubits = FALSE).
\* ts_monitor_callback = Py_None.
QuaCInstance_new_object ==
  [num_qubits |-> 0, has_qubits |-> FALSE, qubits |-> << >>,
   ts_monitor_callback |-> "Py_None"]

\* QuaCInstance_init, toolkit.c:121-138: "|l" stores the num_qubits argument,
\* whatever its sign.
\* "O" stores the ts_monitor argument when one was given (tsm != NULL).
QuaCInstance_init(self, n, tsm) ==
  [self EXCEPT !.num_qubits = n,
               !.ts_monitor_callback = IF tsm # "NULL" THEN tsm ELSE @]

\* quac.Instance(num_qubits = n): tp_new, then tp_init on the new object.
QuaCInstance_call(n, tsm) ==
  /\ ~crashed
  /\ IF QuaCInstance_new_refused(quac_initialized)
     THEN /\ lastT' = Called("Instance", "QuaC must be initialized first!", 0)
          /\ UNCHANGED <<instances, create_calls>>
     ELSE /\ Len(instances) < MaxInstances
          /\ instances' = Append(instances, QuaCInstance_init(QuaCInstance_new_object, n, tsm))
          /\ create_calls' = Append(create_calls, 0)
          /\ lastT' = Called("Instance", "none", Len(instances) + 1)
  /\ UNCHANGED <<quac_initialized, lastInit, circuit, crashed>>
  /\ UNCHANGED <<solverVars, parserVars, bindingVars, matrixVars>>

\* Writing the num_qubits attribute: the member is T_LONG with flags 0, so
\* it is writable (toolkit.c:143-144).
QuaCInstance_set_num_qubits(i, n) ==
  /\ ~crashed
  /\ i \in 1 .. Len(instances)
  /\ instances' = [instances EXCEPT ![i].num_qubits = n]
  /\ lastT' = Called("set_num_qubits", "none", i)
  /\ UNCHANGED <<quac_initialized, lastInit, create_calls, circuit, crashed>>
  /\ UNCHANGED <<solverVars, parserVars, bindingVars, matrixVars>>

\* create_qubits' guard, toolkit.c:170-172: the qubits pointer is the only
\* record of an earlier call.
create_qubits_refused(self) == self.has_qubits

\* malloc(sizeof(operator)*num_qubits) and the create_op loop,
\* toolkit.c:173-177. A negative num_qubits converts to a size no malloc can
\* serve: qubits stays NULL and the loop body never runs.
create_qubits_alloc(self, levels) ==
  IF self.num_qubits = 0 THEN self
  ELSE IF self.num_qubits < 0 THEN self
  ELSE [self EXCEPT !.has_qubits = TRUE,
                    !.qubits = [k \in 1 .. self.num_qubits |-> [levels |-> levels]]]

\* Instance.create_qubits(num_levels = levels), toolkit.c:158-180. The
\* function is declared to return int and is called through a pointer to a
\* function returning PyObject*: on the path that returns None the value the
\* interpreter receives is the pointer truncated to int, which either is
\* the address of None or brings the interpreter down.
QuaCInstance_create_qubits(i, levels) ==
  /\ ~crashed
  /\ i \in 1 .. Len(instances)
  /\ IF create_qubits_refused(instances[i])
     THEN /\ lastT' = Called("create_qubits",
                 "qbits for this QuaC instance have already been created!", i)
          /\ UNCHANGED <<instances, crashed>>
     ELSE /\ instances' = [instances EXCEPT ![i] = create_qubits_alloc(@, levels)]
          /\ lastT' = Called("create_qubits", "none", i)
          /\ crashed' \in BOOLEAN
  /\ create_calls' = [create_calls EXCEPT ![i] = IF @ < 2 THEN @ + 1 ELSE @]
  /\ UNCHANGED <<quac_initialized, lastInit, circuit>>
  /\ UNCHANGED <<solverVars, parserVars, bindingVars, matrixVars>>

\* The Python API with a solver that is never run.
ToolkitInit ==
  /\ np = 1
  /\ total_levels = 2
  /\ _lindblad_terms = 0
  /\ _stiff_solver = 0
  /\ _num_time_dep = 0
  /\ stab_added = [p \in {0} |-> 0]
  /\ matrix_assembled = 0
  /\ full_A = ZeroRow(2)
  /\ assembled = {}
  /\ alive = {0}
  /\ blocked = {}
  /\ lastS = NoCall
  /\ calls = 0
  /\ _ts_monitor = "NULL"
  /\ _num_quantum_gates = 0
  /\ ts = NoTS
  /\ quac_initialized = 0
  /\ lastInit = "none"
  /\ instances = << >>
  /\ create_calls = << >>
  /\ circuit = NoCircuit
  /\ crashed = FALSE
  /\ lastT = NoApiCall
  /\ NDEBUG = FALSE
  /\ lastParse = NoParse
  /\ lastJson = NoJson
  /\ executor = << >>
  /\ lastApply = NoApply
  /\ QuaC_calls = << >>
  /\ lastArgv = NoArgv
  /\ lastDealloc = NoDealloc
  /\ nonzeros = {}
  /\ _time_dep_list = << >>

\* the programs of InstanceSpec create their Instances without a monitor
\* callback; LifecycleSpec and IntegratorSpec pass one
InstanceNext ==
  \/ \E argl \in ProgramArgvs : quac_initialize(argl)
  \/ quac_finalize
  \/ \E n \in QubitCounts : QuaCInstance_call(n, "NULL")
  \/ \E i \in 1 .. MaxInstances, n \in QubitCounts : QuaCInstance_set_num_qubits(i, n)
  \/ \E i \in 1 .. MaxInstances, l \in LevelCounts : QuaCInstance_create_qubits(i, l)

SolverSpec == SolverInit /\ [][SolverNext]_vars

MatrixSpec == SolverInit /\ [][MatrixNext]_vars

InstanceSpec == ToolkitInit /\ [][InstanceNext]_vars

\* q without its i-th element
RemoveAt(q, i) == SubSeq(q, 1, i - 1) \o SubSeq(q, i + 1, Len(q))

\* the indices i of self->qubits[i] that the loop of QuaCInstance_dealloc
\* hands to destroy_op, toolkit.c:81-83: it runs to num_qubits as it is now
dealloc_destroyed(self) ==
  IF self.has_qubits THEN 0 .. (self.num_qubits - 1) ELSE {}

\* tp_dealloc of Instance i (its last reference is dropped), toolkit.c:79-93.
\* rho is never set by the binding. destroy_op on an index behind the end of
\* the array is undefined behaviour.
QuaCInstance_dealloc(i) ==
  /\ ~crashed
  /\ i \in 1 .. Len(instances)
  /\ lastDealloc' = [obj |-> i,
                     allocated |-> Len(instances[i].qubits),
                     destroyed |-> dealloc_destroyed(instances[i])]
  /\ crashed' \in (IF \E k \in dealloc_destroyed(instances[i]) :
                         k >= Len(instances[i].qubits)
                   THEN BOOLEAN ELSE {FALSE})
  /\ instances' = RemoveAt(instances, i)
  /\ create_calls' = RemoveAt(create_calls, i)
  /\ lastT' = Called("dealloc", "none", i)
  /\ UNCHANGED <<quac_initialized, lastInit, circuit, QuaC_calls, lastArgv>>
  /\ UNCHANGED <<solverVars, parserVars, matrixVars>>

\* A program that initializes and finalizes the library as it likes, with
\* any sys.argv, and creates and drops Instance objects.
LifecycleNext ==
  \/ \E argl \in SysArgvs : quac_initialize(argl)
  \/ quac_finalize
  \/ \E n \in QubitCounts, tsm \in Callbacks : QuaCInstance_call(n, tsm)
  \/ \E i \in 1 .. MaxInstances, n \in QubitCounts : QuaCInstance_set_num_qubits(i, n)
  \/ \E i \in 1 .. MaxInstances, l \in LevelCounts : QuaCInstance_create_qubits(i, l)
  \/ \E i \in 1 .. MaxInstances : QuaCInstance_dealloc(i)

LifecycleSpec == ToolkitInit /\ [][LifecycleNext]_vars


(***************************************************************************)
(* toolkit.c: the Circuit type                                             *)
(***************************************************************************)
\* largest num_gates given to Circuit.initialize
MaxGates == 2

\* Strings are sequences of one-character strings.
UpperCase == <<"A", "B", "C", "D", "E", "F", "G", "H", "I", "J", "K", "L", "M",
               "N", "O", "P", "Q", "R", "S", "T", "U", "V", "W", "X", "Y", "Z">>
LowerCase == <<"a", "b", "c", "d", "e", "f", "g", "h", "i", "j", "k", "l", "m",
               "n", "o", "p", "q", "r", "s", "t", "u", "v", "w", "x", "y", "z">>

\* the other characters a name is written with
OtherChars == {" ", "-", "1", "2"}

\* tolower of <ctype.h>, as strcasecmp applies it to each character: the
\* table over the characters in use
tolower_table ==
  [ch \in {UpperCase[k] : k \in 1 .. 26} \cup {LowerCase[k] : k \in 1 .. 26} \cup OtherChars |->
     IF \E k \in 1 .. 26 : UpperCase[k] = ch
     THEN LowerCase[CHOOSE k \in 1 .. 26 : UpperCase[k] = ch]
     ELSE ch]

tolower(ch) == tolower_table[ch]

\* strcasecmp of <strings.h>: 0 when the two strings have the same length
\* and agree character by character after tolower; only "is it 0" is used
\* (toolkit.c:280-282, 320-344).
strcasecmp(s1, s2) ==
  IF Len(s1) = Len(s2) /\ \A k \in 1 .. Len(s1) : tolower(s1[k]) = tolower(s2[k])
  THEN 0
  ELSE 1

\* Fault variant of add_gate_type: the names are compared with strcmp.
add_gate_type_case_sensitive(gate_name) ==
  IF gate_name = <<"C", "Z", "X">> THEN "CZX"
  ELSE IF gate_name = <<"C", "m", "Z">> THEN "CmZ"
  ELSE IF gate_name = <<"C", "Z">> THEN "CZ"
  ELSE IF gate_name = <<"C", "X", "Z">> THEN "CXZ"
  ELSE IF gate_name = <<"C", "N", "O", "T">> THEN "CNOT"
  ELSE IF gate_name = <<"H">> THEN "HADAMARD"
  ELSE IF gate_name = <<"X">> THEN "SIGMAX"
  ELSE IF gate_name = <<"Y">> THEN "SIGMAY"
  ELSE IF gate_name = <<"Z">> THEN "SIGMAZ"
  ELSE IF gate_name = <<"I">> THEN "EYE"
  ELSE IF gate_name = <<"R", "X">> THEN "RX"
  ELSE IF gate_name = <<"R", "Y">> THEN "RY"
  ELSE IF gate_name = <<"R", "Z">> THEN "RZ"
  ELSE "UNKNOWN"

\* The if-chain of QuaCCircuit_add_gate, toolkit.c:320-349, in its order;
\* the result is the gate_type enumerator, "UNKNOWN" for the final else.
add_gate_type(gate_name) ==
  IF strcasecmp(gate_name, <<"C", "Z", "X">>) = 0 THEN "CZX"
  ELSE IF strcasecmp(gate_name, <<"C", "m", "Z">>) = 0 THEN "CmZ"
  ELSE IF strcasecmp(gate_name, <<"C", "Z">>) = 0 THEN "CZ"
  ELSE IF strcasecmp(gate_name, <<"C", "X", "Z">>) = 0 THEN "CXZ"
  ELSE IF strcasecmp(gate_name, <<"C", "N", "O", "T">>) = 0 THEN "CNOT"
  ELSE IF strcasecmp(gate_name, <<"H">>) = 0 THEN "HADAMARD"
  ELSE IF strcasecmp(gate_name, <<"X">>) = 0 THEN "SIGMAX"
  ELSE IF strcasecmp(gate_name, <<"Y">>) = 0 THEN "SIGMAY"
  ELSE IF strcasecmp(gate_name, <<"Z">>) = 0 THEN "SIGMAZ"
  ELSE IF strcasecmp(gate_name, <<"I">>) = 0 THEN "EYE"
  ELSE IF strcasecmp(gate_name, <<"R", "X">>) = 0 THEN "RX"
  ELSE IF strcasecmp(gate_name, <<"R", "Y">>) = 0 THEN "RY"
  ELSE IF strcasecmp(gate_name, <<"R", "Z">>) = 0 THEN "RZ"
  ELSE "UNKNOWN"

\* gate_type as an int: the two-qubit gate types are the negative
\* enumerators, the one-qubit gate types the positive ones.
gate_type_int(gate) ==
  IF gate \in {"CZX", "CmZ", "CZ", "CXZ", "CNOT"} THEN -1 ELSE 1

\* Fault variant of add_gate_missing_qubit2: qubit2 is never looked at.
add_gate_missing_qubit2_never(gate, qubit2) == FALSE

\* toolkit.c:351-355: a two-qubit gate ("((int) gate) < 0") without qubit2
add_gate_missing_qubit2(gate, qubit2) == gate_type_int(gate) < 0 /\ qubit2 < 0

\* add_gate_to_circuit(&c, time, gate, ...): the gate is stored at the end
\* of the circuit's gate list, with the operands the variadic call passes:
\* (qubit1, qubit2) for a two-qubit gate, (qubit1, angle) otherwise.
add_gate_to_circuit(c, time, gate, qubits, angle) ==
  [c EXCEPT !.gate_list = Append(@, [my_gate_type |-> gate, time |-> time,
                                     qubit_numbers |-> qubits, angle |-> angle]),
            !.num_gates = @ + 1]

\* create_circuit(&c, num_gates): preallocates room for num_gates gates.
create_circuit(c, num_gates) ==
  [c EXCEPT !.gate_list = << >>, !.num_gates = 0, !.gate_list_size = num_gates]

\* quil_read / projectq_qasm_read(filename, &num_qubits, &c): the circuit is
\* initialized with the gates of the file.
qasm_read(c, file) ==
  [c EXCEPT !.gate_list = file, !.num_gates = Len(file), !.gate_list_size = Len(file)]

\* QuaCCircuit_new, toolkit.c:228-238: memset(&self->c, 0, sizeof(circuit)).
QuaCCircuit_new_object ==
  [exists |-> TRUE, start_time |-> 0, num_gates |-> 0, gate_list_size |-> 0,
   gate_list |-> << >>]

\* QuaCCircuit_init, toolkit.c:240-249: "|d" stores start_time.
QuaCCircuit_init(self, start_time) == [self EXCEPT !.start_time = start_time]

\* ---- inputs ----
StartTimes == {0, 1}
Qubit1s == {0}
Qubit2s == {-1, 1}
Angles == {0}
Times == {-1, 0, 1}
\* gate names given to add_gate in CircuitSpec
SomeGateNames ==
  {<<"c", "n", "o", "t">>, <<"X">>, <<"T">>}
\* gate names given to add_gate in GateNameSpec
GateNames ==
  {<<"C", "N", "O", "T">>, <<"C", "Z">>, <<"C", "Z", "X">>,
   <<"C", "m", "Z">>, <<"C", "X", "Z">>, <<"H">>, <<"X">>, <<"Y">>,
   <<"Z">>, <<"I">>, <<"R", "X">>, <<"R", "Y">>, <<"R", "Z">>,
   <<"c", "n", "o", "t">>, <<"c", "z">>, <<"c", "z", "x">>,
   <<"c", "m", "z">>, <<"c", "x", "z">>, <<"h">>, <<"x">>, <<"y">>,
   <<"z">>, <<"i">>, <<"r", "x">>, <<"r", "y">>, <<"r", "z">>,
   <<"C", "n", "o", "t">>, <<"C", "M", "Z">>, <<"c", "M", "z">>,
   <<"c", "Z", "x">>, <<"R", "x">>, <<"r", "Y">>,
   <<"C", "N", "o", "t">>, <<"C">>, <<"C", "N">>, <<"C", "N", "O">>,
   <<"C", "N", "O", "T", "T">>, <<"C", "Y">>, <<"C", "X">>,
   <<"X", "X">>, <<"X", "Z">>, <<"Z", "X">>, <<"T">>, <<"S">>, <<"R">>,
   <<"R", "R">>, <<"H", "H">>,
   <<"H", "A", "D", "A", "M", "A", "R", "D">>,
   <<"S", "I", "G", "M", "A", "X">>, <<"E", "Y", "E">>,
   <<"C", "Z", " ">>, <<" ", "X">>, <<"C", "-", "Z">>, <<"1">>,
   <<"N", "O", "T">>, <<"Z", "C">>, <<"m", "Z">>}
QasmFormats ==
  {<<"q", "u", "i", "l">>, <<"Q", "U", "I", "L">>,
   <<"p", "r", "o", "j", "e", "c", "t", "q">>,
   <<"P", "r", "o", "j", "e", "c", "t", "Q">>, <<"q", "a", "s", "m">>,
   <<"q", "u", "i", "l", "2">>}
QasmFiles ==
  { << >>,
    << [my_gate_type |-> "HADAMARD", time |-> 1, qubit_numbers |-> <<0>>, angle |-> 0] >> }

\* quac.Circuit(start_time = t): tp_new, then tp_init. The program holds
\* one Circuit; binding the name again releases the old object
\* (QuaCCircuit_dealloc, toolkit.c:223-226).
QuaCCircuit_call(start_time) ==
  /\ ~crashed
  /\ circuit' = QuaCCircuit_init(QuaCCircuit_new_object, start_time)
  /\ lastT' = Called("Circuit", "none", 1)
  /\ UNCHANGED <<quac_initialized, lastInit, instances, create_calls, crashed>>
  /\ UNCHANGED <<solverVars, parserVars, bindingVars, matrixVars>>

\* Circuit.initialize(num_gates), toolkit.c:292-305.
QuaCCircuit_init2(num_gates) ==
  /\ ~crashed
  /\ circuit.exists
  /\ circuit' = create_circuit(circuit, num_gates)
  /\ lastT' = Called("Circuit.initialize", "none", 1)
  /\ UNCHANGED <<quac_initialized, lastInit, instances, create_calls, crashed>>
  /\ UNCHANGED <<solverVars, parserVars, bindingVars, matrixVars>>

\* Circuit.add_gate(gate, qubit1, qubit2, angle, time), toolkit.c:307-363.
\* A call that reaches add_gate_to_circuit is followed while the gate list
\* has room.
QuaCCircuit_add_gate(gate_name, qubit1, qubit2, angle, time) ==
  /\ ~crashed
  /\ circuit.exists
  /\ LET gate == add_gate_type(gate_name) IN
     IF gate = "UNKNOWN"
     THEN /\ lastT' = ApiCall("add_gate", "Unknown gate type!", 1,
                              gate_name, gate, qubit1, qubit2, angle, time)
          /\ UNCHANGED circuit
     ELSE IF add_gate_missing_qubit2(gate, qubit2)
     THEN /\ lastT' = ApiCall("add_gate",
                              "qubit2 must be specified for a two-qubit gate!", 1,
                              gate_name, gate, qubit1, qubit2, angle, time)
          /\ UNCHANGED circuit
     ELSE /\ circuit.num_gates < circuit.gate_list_size
          /\ circuit' =
               IF gate_type_int(gate) < 0
               THEN add_gate_to_circuit(circuit, time, gate, <<qubit1, qubit2>>, 0)
               ELSE add_gate_to_circuit(circuit, time, gate, <<qubit1>>, angle)
          /\ lastT' = ApiCall("add_gate", "none", 1,
                              gate_name, gate, qubit1, qubit2, angle, time)
  /\ UNCHANGED <<quac_initialized, lastInit, instances, create_calls, crashed>>
  /\ UNCHANGED <<solverVars, parserVars, bindingVars, matrixVars>>

\* Circuit.initialize_and_read_qasm(format, filename), toolkit.c:269-290.
QuaCCircuit_read_qasm(format, file) ==
  /\ ~crashed
  /\ circuit.exists
  /\ IF strcasecmp(format, <<"q", "u", "i", "l">>) = 0
        \/ strcasecmp(format, <<"p", "r", "o", "j", "e", "c", "t", "q">>) = 0
     THEN /\ circuit' = qasm_read(circuit, file)
          /\ lastT' = ApiCall("read_qasm", "none", 1, format, "", 0, 0, 0, 0)
     ELSE /\ lastT' = ApiCall("read_qasm", "Unknown qasm format!", 1, format, "", 0, 0, 0, 0)
          /\ UNCHANGED circuit
  /\ UNCHANGED <<quac_initialized, lastInit, instances, create_calls, crashed>>
  /\ UNCHANGED <<solverVars, parserVars, bindingVars, matrixVars>>

CircuitNext ==
  \/ \E argl \in ProgramArgvs : quac_initialize(argl)
  \/ quac_finalize
  \/ \E t \in StartTimes : QuaCCircuit_call(t)
  \/ \E n \in 0 .. MaxGates : QuaCCircuit_init2(n)
  \/ \E g \in SomeGateNames, q1 \in Qubit1s, q2 \in Qubit2s, a \in Angles, t \in Times :
       QuaCCircuit_add_gate(g, q1, q2, a, t)
  \/ \E f \in QasmFormats, file \in QasmFiles : QuaCCircuit_read_qasm(f, file)

CircuitSpec == ToolkitInit /\ [][CircuitNext]_vars

\* add_gate over every gate name of GateNames, the other arguments at
\* their defaults (qubit2 given or not).
GateNameNext ==
  \/ QuaCCircuit_call(0)
  \/ \E n \in {0, 1} : QuaCCircuit_init2(n)
  \/ \E g \in GateNames, q2 \in Qubit2s : QuaCCircuit_add_gate(g, 0, q2, 0, 0)

GateNameSpec == ToolkitInit /\ [][GateNameNext]_vars


(***************************************************************************)
(* time_step run by a program that also holds Python Instance objects      *)
(***************************************************************************)
\* set_ts_monitor(monitor), solver.c:486-488
set_ts_monitor(monitor) ==
  /\ Running
  /\ _ts_monitor' = monitor
  /\ UNCHANGED <<np, total_levels, _lindblad_terms, _stiff_solver, _num_time_dep,
                 stab_added, matrix_assembled, full_A, assembled, alive, blocked,
                 lastS, calls, _num_quantum_gates, ts>>
  /\ UNCHANGED <<toolkitVars, parserVars, bindingVars, matrixVars>>

\* Scheduling a circuit's gates for the next time_step
\* (start_circuit_at_time): the gate count the integrator tests grows.
start_circuit_at_time ==
  /\ Running
  /\ _num_quantum_gates < MaxGates
  /\ _num_quantum_gates' = _num_quantum_gates + 1
  /\ UNCHANGED <<np, total_levels, _lindblad_terms, _stiff_solver, _num_time_dep,
                 stab_added, matrix_assembled, full_A, assembled, alive, blocked,
                 lastS, calls, _ts_monitor, ts>>
  /\ UNCHANGED <<toolkitVars, parserVars, bindingVars, matrixVars>>

\* ts_monitor(ts,step,time,rho,ctx), toolkit.c:206-221, for the monitor calls
\* TSSolve made: self is ctx; the Python callable of self is called with
\* (self, step, time) when it is set and not None. The calls are listed for
\* the contexts that are Instance objects.
ts_monitor(t, insts) ==
  { [callback |-> insts[c.ctx].ts_monitor_callback, instance |-> c.ctx,
     step |-> c.step, time |-> c.time] :
      c \in { t.monitor_calls[k] : k \in
                { j \in 1 .. Len(t.monitor_calls) :
                    /\ t.monitor_calls[j].fn = "ts_monitor"
                    /\ t.monitor_calls[j].ctx \in 1 .. Len(insts)
                    /\ insts[t.monitor_calls[j].ctx].ts_monitor_callback # "Py_None" } } }

IntegratorInit ==
  /\ np = 1
  /\ total_levels = 2
  /\ _lindblad_terms = 0
  /\ _stiff_solver = 0
  /\ _num_time_dep = 0
  /\ stab_added = [p \in {0} |-> 0]
  /\ matrix_assembled = 0
  /\ full_A = ZeroRow(2)
  /\ assembled = {}
  /\ alive = {0}
  /\ blocked = {}
  /\ lastS = NoCall
  /\ calls = 0
  /\ _ts_monitor = "NULL"
  /\ _num_quantum_gates = 0
  /\ ts = NoTS
  /\ quac_initialized = 0
  /\ lastInit = "none"
  /\ instances = << >>
  /\ create_calls = << >>
  /\ circuit = NoCircuit
  /\ crashed = FALSE
  /\ lastT = NoApiCall
  /\ NDEBUG = FALSE
  /\ lastParse = NoParse
  /\ lastJson = NoJson
  /\ executor = << >>
  /\ lastApply = NoApply
  /\ QuaC_calls = << >>
  /\ lastArgv = NoArgv
  /\ lastDealloc = NoDealloc
  /\ nonzeros = {}
  /\ _time_dep_list = << >>

IntegratorNext ==
  \/ \E argl \in ProgramArgvs : quac_initialize(argl)
  \/ \E tsm \in Callbacks : QuaCInstance_call(1, tsm)
  \/ \E op \in LindbladOperators : add_lin(op)
  \/ start_circuit_at_time
  \/ \E m \in Monitors : set_ts_monitor(m)
  \/ \E x \in StateVectors(total_levels), n \in 1 .. MaxSteps : time_step(x, n)

IntegratorSpec == IntegratorInit /\ [][IntegratorNext]_vars


(***************************************************************************)
(* Hamiltonian.cpp: strings                                                *)
(* A std::string is a sequence of one-character strings. Positions are     *)
(* those of the code (0-based); npos is -1.                                *)
(***************************************************************************)
npos == 0 - 1

Letters == {UpperCase[k] : k \in 1 .. 26} \cup {LowerCase[k] : k \in 1 .. 26}

DigitChars == <<"0", "1", "2", "3", "4", "5", "6", "7", "8", "9">>

Digits == {DigitChars[k] : k \in 1 .. 10}

\* the value of a decimal digit
DigitVal(ch) == (CHOOSE k \in 1 .. 10 : DigitChars[k] = ch) - 1

\* ::toupper on one character
toupper(ch) ==
  IF \E k \in 1 .. 26 : LowerCase[k] = ch
  THEN UpperCase[CHOOSE k \in 1 .. 26 : LowerCase[k] = ch]
  ELSE ch

isalpha(ch) == ch \in Letters

\* std::isspace on the characters in use
isspace(ch) == ch = " "

\* s.substr(pos) and s.substr(pos, n)
substr(s, pos) == SubSeq(s, pos + 1, Len(s))

substr_n(s, pos, n) ==
  SubSeq(s, pos + 1, IF pos + n < Len(s) THEN pos + n ELSE Len(s))

\* s.back(), for a non-empty s
back(s) == s[Len(s)]

\* s.find_last_of(ch) and s.find_first_of(ch) for a one-character set
find_last_of(s, ch) ==
  IF \E k \in 1 .. Len(s) : s[k] = ch
  THEN (CHOOSE k \in 1 .. Len(s) :
          s[k] = ch /\ \A j \in (k + 1) .. Len(s) : s[j] # ch) - 1
  ELSE npos

find_first_of(s, ch) ==
  IF \E k \in 1 .. Len(s) : s[k] = ch
  THEN (CHOOSE k \in 1 .. Len(s) :
          s[k] = ch /\ \A j \in 1 .. (k - 1) : s[j] # ch) - 1
  ELSE npos

\* pat occurs in s at 0-based position p
OccursAt(s, pat, p) ==
  /\ p >= 0
  /\ p + Len(pat) <= Len(s)
  /\ \A k \in 1 .. Len(pat) : s[p + k] = pat[k]

\* s.find(pat, from)
find_from(s, pat, from) ==
  IF \E p \in from .. Len(s) : OccursAt(s, pat, p)
  THEN CHOOSE p \in from .. Len(s) :
         OccursAt(s, pat, p) /\ \A q \in from .. (p - 1) : ~OccursAt(s, pat, q)
  ELSE npos

find(s, pat) == find_from(s, pat, 0)

\* removeWhiteSpaces, Hamiltonian.cpp:15-21
removeWhiteSpaces(in_str) == SelectSeq(in_str, LAMBDA c : ~isspace(c))

\* toUpperCase, Hamiltonian.cpp:23-28
toUpperCase(in_str) == [k \in 1 .. Len(in_str) |-> toupper(in_str[k])]

\* isNumberString, Hamiltonian.cpp:30-37: no character other than a decimal
\* digit (true of the empty string)
isNumberString(in_str) == \A k \in 1 .. Len(in_str) : in_str[k] \in Digits

\* std::stoi on a string of decimal digits
RECURSIVE stoi(_)
stoi(s) ==
  IF s = << >> THEN 0
  ELSE 10 * stoi(SubSeq(s, 1, Len(s) - 1)) + DigitVal(s[Len(s)])

RECURSIVE Pow10(_)
Pow10(n) == IF n = 0 THEN 1 ELSE 10 * Pow10(n - 1)

\* the decimal digits of a non-negative int
RECURSIVE NatToString(_)
NatToString(n) ==
  IF n < 10 THEN <<DigitChars[n + 1]>>
  ELSE Append(NatToString(n \div 10), DigitChars[(n % 10) + 1])

\* std::to_string(int)
to_string_int(n) == IF n < 0 THEN <<"-">> \o NatToString(0 - n) ELSE NatToString(n)


(***************************************************************************)
(* Hamiltonian.cpp: the scalar expression engine behind                    *)
(* TryEvaluateExpression. A double is kept as an integer number of         *)
(* 1/CoefUnits; the inputs below keep every intermediate value exact.      *)
(* The engine reads the grammar                                            *)
(*   expr := term (("+" | "-") term)*      term := factor ("*" factor)*    *)
(*   factor := number | variable | "(" expr ")" | ("+" | "-") factor       *)
(* with variable names compared without regard to case; it refuses the     *)
(* empty string, an unbalanced parenthesis and an unknown symbol.          *)
(***************************************************************************)
CoefUnits == 2

\* the double that an int converts to, and (int) of a double
ToDouble(n) == n * CoefUnits

ToInt(d) == IF d >= 0 THEN d \div CoefUnits ELSE 0 - ((0 - d) \div CoefUnits)

Evaluated(val) == [ok |-> TRUE, val |-> val]

NotEvaluated == [ok |-> FALSE, val |-> 0]

\* the first position q >= p (1-based) whose character is not in S
ScanWhile(s, p, S) ==
  CHOOSE q \in p .. (Len(s) + 1) :
    /\ \A j \in p .. (q - 1) : s[j] \in S
    /\ (q = Len(s) + 1 \/ s[q] \notin S)

\* the number of parentheses open at position k of s
ParenDepth(s, k) ==
  Cardinality({j \in 1 .. (k - 1) : s[j] = "("})
    - Cardinality({j \in 1 .. (k - 1) : s[j] = ")"})

\* the positions of s outside every parenthesis where one of the characters
\* ops stands as a binary operator (something other than an operator or an
\* opening parenthesis stands before it)
BinaryOpPositions(s, ops) ==
  { k \in 2 .. Len(s) :
      /\ s[k] \in ops
      /\ ParenDepth(s, k) = 0
      /\ s[k - 1] \notin {"+", "-", "*", "("} }

LastOf(S) == CHOOSE k \in S : \A j \in S : j <= k

\* s is digits, or digits "." digits
IsNumber(s) ==
  LET q == ScanWhile(s, 1, Digits)
  IN /\ q > 1
     /\ \/ q = Len(s) + 1
        \/ /\ s[q] = "."
           /\ q < Len(s)
           /\ isNumberString(SubSeq(s, q + 1, Len(s)))

\* the double a number is read as
NumberValue(s) ==
  LET q == ScanWhile(s, 1, Digits)
  IN IF q = Len(s) + 1 THEN stoi(s) * CoefUnits
     ELSE stoi(SubSeq(s, 1, q - 1)) * CoefUnits
            + (stoi(SubSeq(s, q + 1, Len(s))) * CoefUnits) \div Pow10(Len(s) - q)

\* s is a variable name
IsName(s) ==
  /\ s # << >>
  /\ isalpha(s[1])
  /\ \A k \in 1 .. Len(s) : s[k] \in Letters \cup Digits \cup {"_"}

\* "(" ... ")" where the first parenthesis closes at the last character
IsParenthesised(s) ==
  /\ Len(s) >= 2
  /\ s[1] = "("
  /\ s[Len(s)] = ")"
  /\ \A k \in 2 .. Len(s) : ParenDepth(s, k) >= 1
  /\ ParenDepth(s, Len(s)) = 1

\* the value of an expression: the lowest-precedence operator outside every
\* parenthesis, the last one of its kind, splits it
RECURSIVE Evaluate(_, _)
Evaluate(s, in_vars) ==
  IF s = << >> THEN NotEvaluated
  ELSE IF BinaryOpPositions(s, {"+", "-"}) # {}
  THEN LET k == LastOf(BinaryOpPositions(s, {"+", "-"}))
           l == Evaluate(SubSeq(s, 1, k - 1), in_vars)
           r == Evaluate(SubSeq(s, k + 1, Len(s)), in_vars)
       IN IF ~l.ok \/ ~r.ok THEN NotEvaluated
          ELSE Evaluated(IF s[k] = "+" THEN l.val + r.val ELSE l.val - r.val)
  ELSE IF BinaryOpPositions(s, {"*"}) # {}
  THEN LET k == LastOf(BinaryOpPositions(s, {"*"}))
           l == Evaluate(SubSeq(s, 1, k - 1), in_vars)
           r == Evaluate(SubSeq(s, k + 1, Len(s)), in_vars)
       IN IF ~l.ok \/ ~r.ok THEN NotEvaluated
          ELSE Evaluated((l.val * r.val) \div CoefUnits)
  ELSE IF s[1] \in {"+", "-"}
  THEN LET r == Evaluate(SubSeq(s, 2, Len(s)), in_vars)
       IN IF ~r.ok THEN NotEvaluated
          ELSE Evaluated(IF s[1] = "+" THEN r.val ELSE 0 - r.val)
  ELSE IF IsParenthesised(s) THEN Evaluate(SubSeq(s, 2, Len(s) - 1), in_vars)
  ELSE IF IsNumber(s) THEN Evaluated(NumberValue(s))
  ELSE IF IsName(s) /\ toUpperCase(s) \in DOMAIN in_vars
  THEN Evaluated(in_vars[toUpperCase(s)])
  ELSE NotEvaluated

\* TryEvaluateExpression, Hamiltonian.cpp:118-143: validExpression and
\* evaluate of the expression service; ok is the bool returned, val is
\* out_result.
TryEvaluateExpression(in_exprString, in_vars) == Evaluate(in_exprString, in_vars)

(***************************************************************************)
(* Hamiltonian.cpp: the parser                                             *)
(***************************************************************************)
\* The operator symbols ConvertOperatorFromString knows: X, Y, Z, I, SP, SM.
OperatorNames == {<<"X">>, <<"Y">>, <<"Z">>, <<"I">>, <<"S", "P">>, <<"S", "M">>}

\* QuaC::ConvertOperatorFromString: the Operator of a symbol, NA otherwise.
\* An Operator is written as its symbol.
NA == <<"N", "A">>

ConvertOperatorFromString(opStr) == IF opStr \in OperatorNames THEN opStr ELSE NA

\* QuaC::OperatorToString
OperatorToString(op) == op

\* Fault variant of GetLastOperator: a symbol that is no operator is let through.
GetLastOperator_any(in_str) ==
  LET pos == find_last_of(in_str, "*")
      failed == [ok |-> FALSE, op |-> << >>, sub |-> << >>]
  IN IF pos = npos THEN failed
     ELSE LET opName == toUpperCase(substr(in_str, pos + 1))
              qubitIdxIter == ScanWhile(opName, 1, Letters)
          IN IF qubitIdxIter = Len(opName) + 1 THEN failed
             ELSE LET opStr == SubSeq(opName, 1, qubitIdxIter - 1)
                      qubitIdxStr == SubSeq(opName, qubitIdxIter, Len(opName))
                  IN IF Len(opStr) < 1
                     THEN failed
                     ELSE IF ~isNumberString(qubitIdxStr) THEN failed
                     ELSE [ok |-> TRUE,
                           op |-> <<ConvertOperatorFromString(opStr), stoi(qubitIdxStr)>>,
                           sub |-> substr_n(in_str, 0, pos)]

\* GetLastOperator, Hamiltonian.cpp:39-76. ok is the bool returned; op and
\* sub are out_Op and out_subString, meaningful when ok.
GetLastOperator(in_str) ==
  LET pos == find_last_of(in_str, "*")
      failed == [ok |-> FALSE, op |-> << >>, sub |-> << >>]
  IN IF pos = npos THEN failed
     ELSE LET opName == toUpperCase(substr(in_str, pos + 1))
              qubitIdxIter == ScanWhile(opName, 1, Letters)
          IN IF qubitIdxIter = Len(opName) + 1 THEN failed
             ELSE LET opStr == SubSeq(opName, 1, qubitIdxIter - 1)
                      qubitIdxStr == SubSeq(opName, qubitIdxIter, Len(opName))
                  IN IF Len(opStr) < 1 \/ ConvertOperatorFromString(opStr) = NA
                     THEN failed
                     ELSE IF ~isNumberString(qubitIdxStr) THEN failed
                     ELSE [ok |-> TRUE,
                           op |-> <<ConvertOperatorFromString(opStr), stoi(qubitIdxStr)>>,
                           sub |-> substr_n(in_str, 0, pos)]

\* Fault variant of UnwrapOpExpresion: the second string always gets (+1.0)*.
UnwrapOpExpresion_plus(in_str) ==
  IF back(in_str) # ")" THEN << >>
  ELSE LET pos == find_last_of(in_str, "(")
       IN IF pos = npos THEN << >>
          ELSE LET coeffExpr == substr_n(in_str, 0, pos)
                   wrapped == substr(in_str, pos + 1)
                   wrappedExpr == SubSeq(wrapped, 1, Len(wrapped) - 1)
                   check1 == find_first_of(wrappedExpr, "(")
                   check2 == find_first_of(wrappedExpr, ")")
                   pmPos == IF find_first_of(wrappedExpr, "+") = npos
                            THEN find_first_of(wrappedExpr, "-")
                            ELSE find_first_of(wrappedExpr, "+")
               IN IF check1 # npos \/ check2 # npos THEN << >>
                  ELSE IF pmPos # npos
                  THEN LET expr1 == substr_n(wrappedExpr, 0, pmPos)
                           expr2 == substr(wrappedExpr, pmPos + 1)
                           signExpr == <<"(", "+", "1", ".", "0", ")", "*">>
                       IN <<coeffExpr \o expr1, signExpr \o coeffExpr \o expr2>>
                  ELSE << >>

\* UnwrapOpExpresion, Hamiltonian.cpp:78-116, for a non-empty in_str: the
\* two strings blabla*A and (+/-1.0)*blabla*B, or the empty vector.
UnwrapOpExpresion(in_str) ==
  IF back(in_str) # ")" THEN << >>
  ELSE LET pos == find_last_of(in_str, "(")
       IN IF pos = npos THEN << >>
          ELSE LET coeffExpr == substr_n(in_str, 0, pos)
                   wrapped == substr(in_str, pos + 1)
                   wrappedExpr == SubSeq(wrapped, 1, Len(wrapped) - 1)
                   check1 == find_first_of(wrappedExpr, "(")
                   check2 == find_first_of(wrappedExpr, ")")
                   pmPos == IF find_first_of(wrappedExpr, "+") = npos
                            THEN find_first_of(wrappedExpr, "-")
                            ELSE find_first_of(wrappedExpr, "+")
               IN IF check1 # npos \/ check2 # npos THEN << >>
                  ELSE IF pmPos # npos
                  THEN LET expr1 == substr_n(wrappedExpr, 0, pmPos)
                           expr2 == substr(wrappedExpr, pmPos + 1)
                           signExpr == <<"(", wrappedExpr[pmPos + 1], "1", ".", "0", ")", "*">>
                       IN <<coeffExpr \o expr1, signExpr \o coeffExpr \o expr2>>
                  ELSE << >>

\* The loop "while (GetLastOperator(tempStr, tempOp, remainderStr))" of both
\* fromString functions (Hamiltonian.cpp:193-197, 250-254): the operators in
\* the order found (last first) and the remainder string, which keeps its
\* value when GetLastOperator fails.
RECURSIVE GetOperators(_, _, _)
GetOperators(tempStr, operators, remainderStr) ==
  LET r == GetLastOperator(tempStr)
  IN IF r.ok THEN GetOperators(r.sub, Append(operators, r.op), r.sub)
     ELSE [operators |-> operators, remainderStr |-> remainderStr]

\* std::reverse
reverse(q) == [k \in 1 .. Len(q) |-> q[Len(q) + 1 - k]]

\* new HamiltonianSumTerm(std::move(terms))
HamiltonianSumTerm(terms) == Term("sum", << >>, 0, << >>, terms)

\* HamiltonianTimeDependentTerm::fromString, Hamiltonian.cpp:148-210, for an
\* input with a non-empty operator expression.
RECURSIVE HamiltonianTimeDependentTerm_fromString(_, _)
HamiltonianTimeDependentTerm_fromString(in_string, in_vars) ==
  LET exprStr == removeWhiteSpaces(in_string)
      separatorPos == find(exprStr, <<"|", "|">>)
  IN IF separatorPos = npos THEN nullptr
     ELSE
     LET channelName == toUpperCase(substr(exprStr, separatorPos + 2))
         operatorExpression == substr_n(exprStr, 0, separatorPos)
     IN IF \/ Len(channelName) < 2
           \/ (channelName[1] # "D" /\ channelName[1] # "U")
           \/ ~isNumberString(substr(channelName, 1))
        THEN nullptr
        ELSE IF back(operatorExpression) = ")"
        THEN LET splitExprs == UnwrapOpExpresion(operatorExpression)
             IN IF Len(splitExprs) # 2 THEN nullptr
                ELSE LET expr1 == HamiltonianTimeDependentTerm_fromString(
                                    splitExprs[1] \o substr(exprStr, separatorPos), in_vars)
                         expr2 == HamiltonianTimeDependentTerm_fromString(
                                    splitExprs[2] \o substr(exprStr, separatorPos), in_vars)
                     IN IF expr1 = nullptr \/ expr2 = nullptr THEN nullptr
                        ELSE HamiltonianSumTerm(<<expr1, expr2>>)
        ELSE LET got == GetOperators(operatorExpression, << >>, << >>)
                 evaled == TryEvaluateExpression(got.remainderStr, in_vars)
             IN IF ~evaled.ok THEN nullptr
                ELSE Term("timedep", channelName, evaled.val,
                          reverse(got.operators), << >>)

\* HamiltonianTimeIndependentTerm::fromString, Hamiltonian.cpp:212-266, for
\* a non-empty input.
RECURSIVE HamiltonianTimeIndependentTerm_fromString(_, _)
HamiltonianTimeIndependentTerm_fromString(in_string, in_vars) ==
  LET exprStr == removeWhiteSpaces(in_string)
      separatorPos == find(exprStr, <<"|", "|">>)
  IN IF separatorPos # npos THEN nullptr
     ELSE IF back(exprStr) = ")"
     THEN LET splitExprs == UnwrapOpExpresion(exprStr)
          IN IF Len(splitExprs) # 2 THEN nullptr
             ELSE LET expr1 == HamiltonianTimeIndependentTerm_fromString(
                                 splitExprs[1], in_vars)
                      expr2 == HamiltonianTimeIndependentTerm_fromString(
                                 splitExprs[2], in_vars)
                  IN IF expr1 = nullptr \/ expr2 = nullptr THEN nullptr
                     ELSE HamiltonianSumTerm(<<expr1, expr2>>)
     ELSE LET got == GetOperators(exprStr, << >>, << >>)
              evaled == TryEvaluateExpression(got.remainderStr, in_vars)
          IN IF ~evaled.ok THEN nullptr
             ELSE Term("static", << >>, evaled.val, reverse(got.operators), << >>)


\* GetNextCommaSeparatedSubString, Hamiltonian.cpp:281-291: the string
\* returned and the new value of io_string.
GetNextCommaSeparatedSubString(io_string) ==
  LET commaPos == find(io_string, <<",">>)
  IN IF commaPos = npos
     THEN [subStr |-> << >>, io_string |-> io_string]
     ELSE [subStr |-> substr_n(io_string, 0, commaPos),
           io_string |-> substr(io_string, commaPos + 1)]

\* The matches of the regular expression (\{.*?\}) in s from 0-based
\* position from on: each match runs from a "{" to the first "}" after it,
\* and the search goes on behind the match (Hamiltonian.cpp:312-326).
RECURSIVE loopVarExprs(_, _)
loopVarExprs(s, from) ==
  LET open == find_from(s, <<"{">>, from)
      close == IF open = npos THEN npos ELSE find_from(s, <<"}">>, open + 1)
  IN IF open = npos \/ close = npos THEN {}
     ELSE {SubSeq(s, open + 1, close + 1)} \cup loopVarExprs(s, close + 1)

\* The value of one template (Hamiltonian.cpp:332-352): in_val for the bare
\* {i}; otherwise the expression between the braces evaluated with the loop
\* variable alone and converted to int, 0 when it does not evaluate.
loopVarExprValue(loopVarExpr, varFmt, in_loopVarName, in_val) ==
  IF loopVarExpr = varFmt THEN in_val
  ELSE LET inner == SubSeq(loopVarExpr, 2, Len(loopVarExpr) - 1)
           loopVarMap == [n \in {toUpperCase(in_loopVarName)} |-> ToDouble(in_val)]
           r == TryEvaluateExpression(inner, loopVarMap)
       IN IF r.ok THEN ToInt(r.val) ELSE 0

\* replaceTemplateWithValue, Hamiltonian.cpp:355-366: every occurrence of
\* in_template from position pos on is replaced by the decimal in_value.
RECURSIVE replaceTemplateWithValue(_, _, _, _)
replaceTemplateWithValue(result, in_template, in_value, from) ==
  LET pos == find_from(result, in_template, from)
      replaceStr == to_string_int(in_value)
  IN IF pos = npos THEN result
     ELSE replaceTemplateWithValue(
            substr_n(result, 0, pos) \o replaceStr
              \o substr(result, pos + Len(in_template)),
            in_template, in_value, pos + Len(replaceStr))

\* The loop over the template map (Hamiltonian.cpp:368-371). The map is
\* unordered; the templates are taken in some order.
RECURSIVE replaceTemplates(_, _, _, _, _)
replaceTemplates(result, templates, varFmt, in_loopVarName, in_val) ==
  IF templates = {} THEN result
  ELSE LET t == CHOOSE t \in templates : TRUE
       IN replaceTemplates(
            replaceTemplateWithValue(result, t,
              loopVarExprValue(t, varFmt, in_loopVarName, in_val), 0),
            templates \ {t}, varFmt, in_loopVarName, in_val)

\* resolveLoopTemplate, Hamiltonian.cpp:311-374
resolveLoopTemplate(in_string, varFmt, in_loopVarName, in_val) ==
  replaceTemplates(in_string, loopVarExprs(in_string, 0), varFmt,
                   in_loopVarName, in_val)

SUM_TERM_PREFIX == <<"_", "S", "U", "M", "[">>

\* The loop of HamiltonianSumTerm::fromString, Hamiltonian.cpp:406-416, once
\* the first index has decided which parser reads the loop expression.
\* ndebug: assert() is compiled out. With assert() compiled in, a loop
\* expression that does not parse at a later index aborts the process;
\* compiled out, the null pointer becomes a child of the sum.
SumTerm_loopOps(loopOps, ndebug) ==
  IF ~ndebug /\ \E k \in 1 .. Len(loopOps) : loopOps[k] = nullptr
  THEN aborted
  ELSE HamiltonianSumTerm(loopOps)

\* parseLoopExpression, Hamiltonian.cpp:391-403
parseLoopExpression(isTimeDependent, in_exprStr, in_vars) ==
  IF isTimeDependent
  THEN HamiltonianTimeDependentTerm_fromString(in_exprStr, in_vars)
  ELSE HamiltonianTimeIndependentTerm_fromString(in_exprStr, in_vars)

\* Hamiltonian.cpp:382-416: the loop expression at the first index decides
\* between the two parsers, then every index is parsed.
SumTerm_resolved(tryTimeIndependent, tryTimeDependent, resolvedExprs, in_vars, ndebug) ==
  IF tryTimeIndependent = nullptr /\ tryTimeDependent = nullptr
  THEN nullptr
  ELSE SumTerm_loopOps(
         [k \in 1 .. Len(resolvedExprs) |->
            parseLoopExpression(tryTimeDependent # nullptr, resolvedExprs[k], in_vars)],
         ndebug)

\* Hamiltonian.cpp:298-382: the checks on the four fields of the sum and the
\* loop expression resolved at every index from start to end.
SumTerm_fields(loopVarName, startValStr, endValStr, loopExpression, in_vars, ndebug) ==
  IF \/ loopVarName = << >> \/ startValStr = << >> \/ endValStr = << >>
     \/ loopExpression = << >>
     \/ ~isNumberString(startValStr) \/ ~isNumberString(endValStr)
     \/ find(loopExpression, <<"{">> \o loopVarName \o <<"}">>) = npos
  THEN nullptr
  ELSE IF stoi(startValStr) > stoi(endValStr) THEN nullptr
  ELSE SumTerm_resolved(
         HamiltonianTimeIndependentTerm_fromString(
           resolveLoopTemplate(loopExpression, <<"{">> \o loopVarName \o <<"}">>,
                               loopVarName, stoi(startValStr)), in_vars),
         HamiltonianTimeDependentTerm_fromString(
           resolveLoopTemplate(loopExpression, <<"{">> \o loopVarName \o <<"}">>,
                               loopVarName, stoi(startValStr)), in_vars),
         [k \in 1 .. (stoi(endValStr) - stoi(startValStr) + 1) |->
            resolveLoopTemplate(loopExpression, <<"{">> \o loopVarName \o <<"}">>,
                                loopVarName, stoi(startValStr) + k - 1)],
         in_vars, ndebug)

\* Hamiltonian.cpp:293-297: the three comma-separated fields taken off the
\* front of the text between the brackets; what is left is the loop
\* expression.
SumTerm_split3(g3, startValStr, loopVarName, in_vars, ndebug) ==
  SumTerm_fields(loopVarName, startValStr, g3.subStr, g3.io_string, in_vars, ndebug)

SumTerm_split2(g2, loopVarName, in_vars, ndebug) ==
  SumTerm_split3(GetNextCommaSeparatedSubString(g2.io_string), g2.subStr,
                 loopVarName, in_vars, ndebug)

SumTerm_split1(g1, in_vars, ndebug) ==
  SumTerm_split2(GetNextCommaSeparatedSubString(g1.io_string), g1.subStr,
                 in_vars, ndebug)

\* Hamiltonian.cpp:268-279: the prefix and the closing bracket
SumTerm_body(exprStr, in_vars, ndebug) ==
  IF substr_n(exprStr, 0, Len(SUM_TERM_PREFIX)) # SUM_TERM_PREFIX
     \/ back(exprStr) # "]"
  THEN nullptr
  ELSE SumTerm_split1(
         GetNextCommaSeparatedSubString(
           SubSeq(exprStr, Len(SUM_TERM_PREFIX) + 1, Len(exprStr) - 1)),
         in_vars, ndebug)

\* HamiltonianSumTerm::fromString, Hamiltonian.cpp:268-417, for a non-empty
\* input
HamiltonianSumTerm_fromString(in_string, in_vars, ndebug) ==
  SumTerm_body(removeWhiteSpaces(in_string), in_vars, ndebug)

\* The order of HamiltonianParsingUtil::tryParse, Hamiltonian.cpp:577-608:
\* the first parser that returns a term wins.
FirstTerm(trySum, tryTimeDep, tryTimeInd) ==
  IF trySum # nullptr THEN trySum
  ELSE IF tryTimeDep # nullptr THEN tryTimeDep
  ELSE IF tryTimeInd # nullptr THEN tryTimeInd
  ELSE nullptr

\* HamiltonianParsingUtil::tryParse(in_expr, in_vars), Hamiltonian.cpp:577-608
HamiltonianParsingUtil_tryParse(in_expr, in_vars, ndebug) ==
  FirstTerm(HamiltonianSumTerm_fromString(in_expr, in_vars, ndebug),
            HamiltonianTimeDependentTerm_fromString(in_expr, in_vars),
            HamiltonianTimeIndependentTerm_fromString(in_expr, in_vars))

\* The loop of HamiltonianParsingUtil::tryParse(in_jsonString,
\* in_forEachTermFn) over the h_str array, Hamiltonian.cpp:629-640: every
\* string is parsed and, when it parses, its term is handed to
\* in_forEachTermFn before the next string is looked at. parsed[hamStr] is
\* what tryParse(hamStr, vars) returns; handed lists the terms
\* in_forEachTermFn received.
RECURSIVE tryParse_loop(_, _, _)
tryParse_loop(parsed, hamStrArray, handed) ==
  IF hamStrArray = << >> THEN [ok |-> TRUE, handed |-> handed]
  ELSE IF parsed[Head(hamStrArray)] = nullptr \/ parsed[Head(hamStrArray)] = aborted
  THEN [ok |-> FALSE, handed |-> handed]
  ELSE tryParse_loop(parsed, Tail(hamStrArray),
                     Append(handed, parsed[Head(hamStrArray)]))


(***************************************************************************)
(* Hamiltonian.cpp: apply and collect                                      *)
(***************************************************************************)
\* largest number of functors the executor holds
MaxPosted == 3

\* std::make_unique<AddHamiltonianTerm>(coefficient, opList[, channel])
AddHamiltonianTerm(coef, opList, channel) ==
  [coef |-> coef, opList |-> opList, channel |-> channel]

\* the opList of the first n operators of a term
opList(ops, n) == [k \in 1 .. n |-> <<OperatorToString(ops[k][1]), ops[k][2]>>]

Applied(outcome, posted) == [outcome |-> outcome, posted |-> posted]

\* HamiltonianTimeIndependentTerm::apply, Hamiltonian.cpp:419-450.
\* xacc::error does not return to the caller.
HamiltonianTimeIndependentTerm_apply(t) ==
  IF Len(t.ops) > 2 THEN Applied("error", << >>)
  ELSE IF Len(t.ops) = 1
  THEN Applied("done", <<AddHamiltonianTerm(t.coef, opList(t.ops, 1), << >>)>>)
  ELSE IF Len(t.ops) = 2
  THEN Applied("done", <<AddHamiltonianTerm(t.coef, opList(t.ops, 2), << >>)>>)
  ELSE Applied("done", << >>)

\* HamiltonianTimeDependentTerm::apply, Hamiltonian.cpp:452-481. The
\* operator count is tested by assert() alone.
HamiltonianTimeDependentTerm_apply(t, ndebug) ==
  IF ~ndebug /\ ~(Len(t.ops) = 1 \/ Len(t.ops) = 2) THEN Applied("abort", << >>)
  ELSE IF Len(t.ops) = 1
  THEN Applied("done", <<AddHamiltonianTerm(t.coef, opList(t.ops, 1), t.channel)>>)
  ELSE IF Len(t.ops) = 2
  THEN Applied("done", <<AddHamiltonianTerm(t.coef, opList(t.ops, 2), t.channel)>>)
  ELSE Applied("done", << >>)

\* HamiltonianSumTerm::apply, Hamiltonian.cpp:483-489, and the virtual
\* dispatch of term->apply: the children are applied in order; a child that
\* does not return ends the loop with the earlier children's functors posted.
RECURSIVE HamiltonianTerm_apply(_, _)
RECURSIVE HamiltonianSumTerm_apply(_, _, _)
HamiltonianSumTerm_apply(m_terms, ndebug, posted) ==
  IF m_terms = << >> THEN Applied("done", posted)
  ELSE LET r == HamiltonianTerm_apply(Head(m_terms), ndebug)
       IN IF r.outcome # "done" THEN Applied(r.outcome, posted \o r.posted)
          ELSE HamiltonianSumTerm_apply(Tail(m_terms), ndebug, posted \o r.posted)

HamiltonianTerm_apply(t, ndebug) ==
  IF t.kind = "static" THEN HamiltonianTimeIndependentTerm_apply(t)
  ELSE IF t.kind = "timedep" THEN HamiltonianTimeDependentTerm_apply(t, ndebug)
  ELSE HamiltonianSumTerm_apply(t.terms, ndebug, << >>)

\* n written with at least w decimal digits
RECURSIVE ZeroPadded(_, _)
ZeroPadded(n, w) ==
  IF w <= 1 THEN NatToString(n)
  ELSE IF n < Pow10(w - 1) THEN <<"0">> \o ZeroPadded(n, w - 1)
  ELSE NatToString(n)

\* std::to_string(double): the "%f" form, six digits behind the point
to_string_double(d) ==
  LET a == IF d < 0 THEN 0 - d ELSE d
  IN (IF d < 0 THEN <<"-">> ELSE << >>)
       \o NatToString(a \div CoefUnits) \o <<".">>
       \o ZeroPadded(((a % CoefUnits) * 1000000) \div CoefUnits, 6)

\* OperatorToString(op.first) + std::to_string(op.second) for the first n
\* operators, one behind the other
RECURSIVE opString(_, _)
opString(ops, n) ==
  IF n = 0 THEN << >>
  ELSE opString(ops, n - 1) \o OperatorToString(ops[n][1]) \o to_string_int(ops[n][2])

Collected(outcome, staticHstr, ctrlHstr) ==
  [outcome |-> outcome, staticHstr |-> staticHstr, ctrlHstr |-> ctrlHstr]

\* HamiltonianTimeIndependentTerm::collect, Hamiltonian.cpp:491-519
HamiltonianTimeIndependentTerm_collect(t, io_staticHstr, io_ctrlHstr) ==
  IF Len(t.ops) > 2 THEN Collected("error", io_staticHstr, io_ctrlHstr)
  ELSE IF Len(t.ops) = 1 \/ Len(t.ops) = 2
  THEN Collected("done",
         io_staticHstr \o <<"+", " ">> \o to_string_double(t.coef) \o <<"*">>
           \o opString(t.ops, Len(t.ops)),
         io_ctrlHstr)
  ELSE Collected("done", io_staticHstr, io_ctrlHstr)

\* HamiltonianTimeDependentTerm::collect, Hamiltonian.cpp:521-546
HamiltonianTimeDependentTerm_collect(t, io_staticHstr, io_ctrlHstr, ndebug) ==
  IF ~ndebug /\ ~(Len(t.ops) = 1 \/ Len(t.ops) = 2)
  THEN Collected("abort", io_staticHstr, io_ctrlHstr)
  ELSE IF Len(t.ops) = 1 \/ Len(t.ops) = 2
  THEN Collected("done", io_staticHstr,
         Append(io_ctrlHstr,
                to_string_double(t.coef) \o <<"*">> \o opString(t.ops, Len(t.ops))))
  ELSE Collected("done", io_staticHstr, io_ctrlHstr)

\* HamiltonianSumTerm::collect, Hamiltonian.cpp:548-554, and the dispatch
RECURSIVE HamiltonianTerm_collect(_, _, _, _)
RECURSIVE HamiltonianSumTerm_collect(_, _, _, _)
HamiltonianSumTerm_collect(m_terms, io_staticHstr, io_ctrlHstr, ndebug) ==
  IF m_terms = << >> THEN Collected("done", io_staticHstr, io_ctrlHstr)
  ELSE LET r == HamiltonianTerm_collect(Head(m_terms), io_staticHstr, io_ctrlHstr, ndebug)
       IN IF r.outcome # "done" THEN r
          ELSE HamiltonianSumTerm_collect(Tail(m_terms), r.staticHstr, r.ctrlHstr, ndebug)

HamiltonianTerm_collect(t, io_staticHstr, io_ctrlHstr, ndebug) ==
  IF t.kind = "static"
  THEN HamiltonianTimeIndependentTerm_collect(t, io_staticHstr, io_ctrlHstr)
  ELSE IF t.kind = "timedep"
  THEN HamiltonianTimeDependentTerm_collect(t, io_staticHstr, io_ctrlHstr, ndebug)
  ELSE HamiltonianSumTerm_collect(t.terms, io_staticHstr, io_ctrlHstr, ndebug)


(***************************************************************************)
(* Hamiltonian.cpp: the calls made on the parser                           *)
(***************************************************************************)
\* the variable environment handed in with the text: w = 0.5, c = 2.0
VarsMap == (<<"W">> :> 1) @@ (<<"C">> :> 2 * CoefUnits)

\* single terms, static and channel-bound
PlainInputs ==
  { <<"1", ".", "0", "*", "X", "0">>,
    <<"w", "*", "Z", "1">>,
    <<"2", "*", "x", "0", "*", "Y", "1">>,
    <<"1", ".", "0", " ", "*", " ", "S", "P", "0", " ", "|", "|", " ", "d", "1">>,
    <<"c", "*", "s", "m", "1", "*", "X", "0", "|", "|", "U", "0">>,
    <<"1", ".", "0", "*", "X", "0", "*", "X", "1", "*", "X", "2">>,
    <<"1", ".", "0", "*", "X", "0", "*", "X", "1", "*", "X", "2", "|", "|", "D", "0">> }

\* c*(A+B) and c*(A-B), with and without a channel
DistributiveInputs ==
  { <<"0", ".", "5", "*", "(", "X", "0", "+", "Y", "0", ")", "|", "|", "D", "1">>,
    <<"c", "*", "(", "X", "0", "-", "X", "1", ")", "|", "|", "U", "0">>,
    <<"c", "*", "(", "X", "0", "+", "X", "1", ")">>,
    <<"w", "*", "(", "Z", "0", "-", "Z", "1", ")">>,
    <<"c", "*", "(", "X", "0", "*", "X", "1", "-", "Y", "0", "*", "Y", "1", ")", "|", "|", "D", "0">> }

\* _SUM[var,a,b,expr] loops
SumInputs ==
  { <<"_", "S", "U", "M", "[", "i", ",", "0", ",", "2", ",", " ", "1", ".", "0", "*", "X", "{", "i", "}", "]">>,
    <<"_", "S", "U", "M", "[", "i", ",", "1", ",", "1", ",", "c", "*", "Z", "{", "i", "}", "]">>,
    <<"_", "S", "U", "M", "[", "j", ",", "1", ",", "2", ",", "w", "*", "X", "{", "j", "}", "*", "X", "{", "j", "+", "1", "}", "|", "|", "D", "{", "j", "}", "]">>,
    <<"_", "S", "U", "M", "[", "i", ",", "0", ",", "1", ",", "1", ".", "0", "*", "X", "{", "i", "+", "1", "}", "]">>,
    <<"_", "S", "U", "M", "[", "i", ",", "2", ",", "1", ",", "1", ".", "0", "*", "X", "{", "i", "}", "]">>,
    <<"_", "S", "U", "M", "[", "i", ",", "0", ",", "2", ",", "1", ".", "0", "*", "X", "{", "i", "}", "*", "Y", "{", "1", "-", "i", "}", "]">> }

\* inputs with an unmatched parenthesis
UnmatchedParenInputs ==
  { <<"2", "*", "(", "X", "0", "+", "X", "1">>,
    <<"2", "*", "X", "0", "+", "X", "1", ")">>,
    <<"(", "2", "*", "X", "0">>,
    <<"2", ")", "*", "X", "0">>,
    <<"1", ".", "0", "*", "(", "X", "0">>,
    <<"2", "*", "(", "X", "0", "+", "X", "1", ")", ")", "|", "|", "D", "0">>,
    <<"(", "(", "2", ")", "*", "(", "X", "0", "+", "X", "1", ")">> }

\* inputs with a parenthesised sum inside a parenthesised sum
NestedSumInputs ==
  { <<"2", "*", "(", "(", "X", "0", "+", "X", "1", ")", "+", "X", "2", ")">>,
    <<"2", "*", "(", "X", "0", "+", "(", "X", "1", "-", "X", "2", ")", ")">>,
    <<"w", "*", "(", "(", "X", "0", "+", "X", "1", ")", ")", "|", "|", "D", "0">> }

\* inputs with an operator symbol ConvertOperatorFromString does not know
UnknownOperatorInputs ==
  { <<"2", "*", "Q", "0">>,
    <<"2", "*", "X", "0", "*", "Q", "1">>,
    <<"c", "*", "Q", "0", "*", "X", "0">>,
    <<"1", ".", "0", "*", "X", "X", "0">>,
    <<"2", "*", "(", "X", "0", "+", "Q", "1", ")">>,
    <<"1", ".", "0", "*", "Q", "0", "|", "|", "D", "0">> }

\* inputs whose channel name is not D or U followed by digits
MalformedChannelInputs ==
  { <<"1", ".", "0", "*", "X", "0", "|", "|", "Q", "1">>,
    <<"1", ".", "0", "*", "X", "0", "|", "|", "D">>,
    <<"1", ".", "0", "*", "X", "0", "|", "|", "D", "1", "x">>,
    <<"1", ".", "0", "*", "X", "0", "|", "|", "1">>,
    <<"1", ".", "0", "*", "X", "0", "|", "|">>,
    <<"c", "*", "(", "X", "0", "+", "X", "1", ")", "|", "|", "D", "D">>,
    <<"_", "S", "U", "M", "[", "i", ",", "0", ",", "1", ",", "1", ".", "0", "*", "X", "{", "i", "}", "|", "|", "Q", "{", "i", "}", "]">> }

ParseInputs ==
  PlainInputs \cup DistributiveInputs \cup SumInputs \cup UnmatchedParenInputs
    \cup NestedSumInputs \cup UnknownOperatorInputs \cup MalformedChannelInputs

\* the strings an h_str array is made of
HamStrs == { <<"1", ".", "0", "*", "X", "0">>, <<"w", "*", "Z", "1", "|", "|", "D", "0">>, <<"2", "*", "Q", "0">>, <<"_", "S", "U", "M", "[", "i", ",", "0", ",", "1", ",", "c", "*", "X", "{", "i", "}", "]">> }

\* h_str arrays of one and of two strings
HamStrArrays ==
  { <<a>> : a \in HamStrs } \cup { <<a, b>> : a \in HamStrs, b \in HamStrs }

\* the texts whose terms are applied and collected
ApplyInputs == { <<"1", ".", "0", "*", "X", "0">>, <<"w", "*", "Z", "0", "*", "Z", "1">>, <<"c", "*", "Y", "1", "|", "|", "D", "0">>, <<"1", ".", "0", "*", "X", "0", "*", "X", "1", "*", "X", "2">>, <<"1", ".", "0", "*", "X", "0", "*", "X", "1", "*", "X", "2", "|", "|", "D", "0">>, <<"c", "*", "(", "X", "0", "-", "X", "1", ")">>, <<"_", "S", "U", "M", "[", "i", ",", "0", ",", "1", ",", "1", ".", "0", "*", "X", "{", "i", "}", "*", "Y", "{", "i", "+", "1", "}", "*", "Z", "{", "2", "-", "i", "}", "]">>, <<"-", "w", "*", "X", "0">> }

\* what tryParse returns for every text in use, in either build
tryParse_results ==
  [ndebug \in BOOLEAN |->
     [in_expr \in ParseInputs \cup ApplyInputs \cup HamStrs |->
        HamiltonianParsingUtil_tryParse(in_expr, VarsMap, ndebug)]]

\* HamiltonianParsingUtil::tryParse(in_expr, in_vars) called by a program
tryParse(in_expr) ==
  /\ lastParse' = [input |-> in_expr, result |-> tryParse_results[NDEBUG][in_expr]]
  /\ UNCHANGED <<NDEBUG, lastJson, executor, lastApply>>
  /\ UNCHANGED <<solverVars, toolkitVars, bindingVars, matrixVars>>

\* HamiltonianParsingUtil::tryParse(in_jsonString, in_forEachTermFn),
\* Hamiltonian.cpp:610-643, for a JSON object whose h_str is hamStrArray and
\* whose vars is VarsMap.
tryParseJson(hamStrArray) ==
  /\ LET r == tryParse_loop(tryParse_results[NDEBUG], hamStrArray, << >>)
     IN lastJson' = [h_str |-> hamStrArray, ok |-> r.ok, handed |-> r.handed]
  /\ UNCHANGED <<NDEBUG, lastParse, executor, lastApply>>
  /\ UNCHANGED <<solverVars, toolkitVars, bindingVars, matrixVars>>

\* term->apply(resolver, executor) on the term the last tryParse returned
apply ==
  /\ lastParse.result.kind \in {"static", "timedep", "sum"}
  /\ LET r == HamiltonianTerm_apply(lastParse.result, NDEBUG)
     IN /\ Len(executor) + Len(r.posted) <= MaxPosted
        /\ executor' = executor \o r.posted
        /\ lastApply' = [op |-> "apply", term |-> lastParse.result,
                         outcome |-> r.outcome, posted_before |-> Len(executor),
                         staticH |-> << >>, ctrlH |-> << >>]
  /\ UNCHANGED <<NDEBUG, lastParse, lastJson>>
  /\ UNCHANGED <<solverVars, toolkitVars, bindingVars, matrixVars>>

\* term->collect(staticHstr, ctrlHstr) on the term the last tryParse
\* returned, with an empty string and an empty vector
collect ==
  /\ lastParse.result.kind \in {"static", "timedep", "sum"}
  /\ LET r == HamiltonianTerm_collect(lastParse.result, << >>, << >>, NDEBUG)
     IN lastApply' = [op |-> "collect", term |-> lastParse.result,
                      outcome |-> r.outcome, posted_before |-> Len(executor),
                      staticH |-> r.staticHstr, ctrlH |-> r.ctrlHstr]
  /\ UNCHANGED <<NDEBUG, lastParse, lastJson, executor>>
  /\ UNCHANGED <<solverVars, toolkitVars, bindingVars, matrixVars>>

ParserInit ==
  /\ np = 1
  /\ total_levels = 2
  /\ _lindblad_terms = 0
  /\ _stiff_solver = 0
  /\ _num_time_dep = 0
  /\ stab_added = [p \in {0} |-> 0]
  /\ matrix_assembled = 0
  /\ full_A = ZeroRow(2)
  /\ assembled = {}
  /\ alive = {0}
  /\ blocked = {}
  /\ lastS = NoCall
  /\ calls = 0
  /\ _ts_monitor = "NULL"
  /\ _num_quantum_gates = 0
  /\ ts = NoTS
  /\ quac_initialized = 0
  /\ lastInit = "none"
  /\ instances = << >>
  /\ create_calls = << >>
  /\ circuit = NoCircuit
  /\ crashed = FALSE
  /\ lastT = NoApiCall
  /\ NDEBUG \in BOOLEAN
  /\ lastParse = NoParse
  /\ lastJson = NoJson
  /\ executor = << >>
  /\ lastApply = NoApply
  /\ QuaC_calls = << >>
  /\ lastArgv = NoArgv
  /\ lastDealloc = NoDealloc
  /\ nonzeros = {}
  /\ _time_dep_list = << >>

ParseNext ==
  \/ \E in_expr \in ParseInputs : tryParse(in_expr)
  \/ \E hamStrArray \in HamStrArrays : tryParseJson(hamStrArray)

ParseSpec == ParserInit /\ [][ParseNext]_vars

ApplyNext ==
  \/ \E in_expr \in ApplyInputs : tryParse(in_expr)
  \/ apply
  \/ collect

ApplySpec == ParserInit /\ [][ApplyNext]_vars


(***************************************************************************)
(* Properties                                                              *)
(***************************************************************************)
\* the flattened diagonal positions of rho: r*D + r
DiagonalPositions(D) == { r * D + r : r \in 0 .. (D - 1) }

\* C1: whenever time_step goes on to integrate, the net stabilization
\* contribution in row 0 of full_A is zero: every +1.0 of steady_state was
\* cancelled by exactly one -1.0.
C1_TimeStepStartsWithoutStabilization ==
  (lastS.op = "time_step" /\ lastS.outcome = "solved")
    => \A c \in Columns(total_levels) : full_A[c] = 0

\* C2: whenever steady_state reaches the linear solve, row 0 of full_A
\* carries the stabilization exactly once: +1 at the D flattened diagonal
\* positions, 0 elsewhere.
C2_SteadyStateSolvesWithStabilizationOnce ==
  (lastS.op = "steady_state" /\ lastS.outcome = "solved")
    => \A c \in Columns(total_levels) :
         full_A[c] = IF c \in DiagonalPositions(total_levels) THEN 1 ELSE 0

\* C3: after clear() the stabilization flag reads "not added" on every
\* process.
C3_ClearResetsStabilizationFlag ==
  lastS.op = "clear" => \A p \in Procs : stab_added[p] = 0

\* C10: a time_step call with the stiff solver selected together with
\* Lindblad terms or with time-dependent terms ends in the rejection: no
\* integrator is created, every process exits, and no matrix and no solver
\* flag was modified.
C10_StiffCombinationRejected ==
  [][ ( /\ lastS'.op = "time_step"
        /\ calls' = calls + 1
        /\ _stiff_solver # 0
        /\ (_lindblad_terms # 0 \/ _num_time_dep # 0) )
      => ( /\ lastS'.outcome = "exit"
           /\ alive' = {}
           /\ UNCHANGED <<full_A, assembled, stab_added, matrix_assembled>> ) ]_vars

\* C10, reached: a stiff + Lindblad time_step was rejected while the
\* stabilization row was still in full_A.
C10_Witness ==
  /\ lastS.op = "time_step"
  /\ lastS.outcome = "exit"
  /\ lastS.stiff = 1
  /\ lastS.lindblad = 1
  /\ lastS.stab_before = 1
  /\ \E c \in Columns(total_levels) : full_A[c] = 1

\* C4: constructing an Instance succeeds exactly when the most recent of
\* initialize() / finalize() was initialize(); a refused construction
\* raises an error and creates no instance, a successful one creates one.
C4_InstanceNeedsInitialize ==
  [][ lastT'.api = "Instance"
      => ( /\ (lastT'.err = "none") <=> (lastInit = "initialize")
           /\ IF lastInit = "initialize"
              THEN Len(instances') = Len(instances) + 1
              ELSE instances' = instances ) ]_vars

\* C4, reached: after initialize() an Instance was created, and after
\* finalize() a second construction was refused.
C4_Witness ==
  /\ lastT.api = "Instance"
  /\ lastT.err = "QuaC must be initialized first!"
  /\ lastInit = "finalize"
  /\ Len(instances) = 1

\* C5: every simulation API other than Instance construction fails with a
\* NotInitialized error (and does nothing) while QuaC is not initialized.
C5_ApiNeedsInitialize ==
  ( /\ lastT.api \in {"Circuit", "Circuit.initialize", "add_gate", "read_qasm",
                      "create_qubits"}
    /\ quac_initialized = 0 )
    => lastT.err = "NotInitialized"

\* C6: the second and every later create_qubits call on an instance raises
\* an error and leaves the instance's operators unchanged, whatever
\* num_qubits is.
C6_CreateQubitsOnlyOnce ==
  [][ ( /\ lastT'.api = "create_qubits"
        /\ create_calls[lastT'.obj] >= 1 )
      => ( /\ lastT'.err # "none"
           /\ instances'[lastT'.obj].has_qubits = instances[lastT'.obj].has_qubits
           /\ instances'[lastT'.obj].qubits = instances[lastT'.obj].qubits ) ]_vars

\* a name with every character lower-cased
Folded(name) == [k \in 1 .. Len(name) |-> tolower(name[k])]

TwoQubitNames ==
  {<<"c", "n", "o", "t">>, <<"c", "z">>, <<"c", "z", "x">>, <<"c", "m", "z">>,
   <<"c", "x", "z">>}

\* C7: add_gate with a two-qubit gate name and qubit2 < 0 raises an error
\* and leaves the gate list unchanged; with qubit2 >= 0 the gate is
\* appended with the operands (qubit1, qubit2).
C7_TwoQubitGateNeedsQubit2 ==
  [][ ( /\ lastT'.api = "add_gate"
        /\ Folded(lastT'.name) \in TwoQubitNames )
      => IF lastT'.qubit2 < 0
         THEN /\ lastT'.err = "qubit2 must be specified for a two-qubit gate!"
              /\ circuit' = circuit
         ELSE /\ lastT'.err = "none"
              /\ Len(circuit'.gate_list) = Len(circuit.gate_list) + 1
              /\ SubSeq(circuit'.gate_list, 1, Len(circuit.gate_list)) = circuit.gate_list
              /\ circuit'.gate_list[Len(circuit'.gate_list)].qubit_numbers
                   = <<lastT'.qubit1, lastT'.qubit2>> ]_vars

\* C7, reached: a two-qubit gate without qubit2 was refused on a circuit
\* that already holds a two-qubit gate with both operands.
C7_Witness ==
  /\ lastT.api = "add_gate"
  /\ lastT.err = "qubit2 must be specified for a two-qubit gate!"
  /\ lastT.qubit2 < 0
  /\ circuit.num_gates >= 1
  /\ circuit.gate_list[1].qubit_numbers = <<0, 1>>

\* the gate type each of the thirteen names stands for
ExpectedGateType(folded) ==
  CASE folded = <<"c", "n", "o", "t">> -> "CNOT"
    [] folded = <<"c", "z">> -> "CZ"
    [] folded = <<"c", "z", "x">> -> "CZX"
    [] folded = <<"c", "m", "z">> -> "CmZ"
    [] folded = <<"c", "x", "z">> -> "CXZ"
    [] folded = <<"h">> -> "HADAMARD"
    [] folded = <<"x">> -> "SIGMAX"
    [] folded = <<"y">> -> "SIGMAY"
    [] folded = <<"z">> -> "SIGMAZ"
    [] folded = <<"i">> -> "EYE"
    [] folded = <<"r", "x">> -> "RX"
    [] folded = <<"r", "y">> -> "RY"
    [] folded = <<"r", "z">> -> "RZ"
    [] OTHER -> "UNKNOWN"

\* C8: add_gate accepts exactly the thirteen gate names, compared
\* case-insensitively, and selects for each the gate type of that name; any
\* other name raises "Unknown gate type!" and leaves the circuit unchanged.
C8_GateNamesCaseInsensitive ==
  [][ lastT'.api = "add_gate"
      => LET expected == ExpectedGateType(Folded(lastT'.name)) IN
         /\ lastT'.gate = expected
         /\ (lastT'.err = "Unknown gate type!") <=> (expected = "UNKNOWN")
         /\ expected = "UNKNOWN" => circuit' = circuit ]_vars

\* C8, reached: "cMz" was accepted and stored as CmZ.
C8_Witness ==
  /\ lastT.api = "add_gate"
  /\ lastT.name = <<"c", "M", "z">>
  /\ lastT.gate = "CmZ"
  /\ lastT.err = "none"
  /\ circuit.num_gates = 1

\* C9: add_gate with a scheduled time < 0 is rejected with an error and
\* the gate list is unchanged.
C9_NegativeTimeRejected ==
  [][ ( /\ lastT'.api = "add_gate"
        /\ lastT'.time < 0 )
      => ( /\ lastT'.err # "none"
           /\ circuit' = circuit ) ]_vars

\* |tr rho - 1| < 1e-6 for rho = v / sqrt(den2): with S the sum of v and
\* Q = den2 (integers, Q < 10^6) this is (1 - 1e-6)^2 Q < S^2 < (1 + 1e-6)^2 Q,
\* that is, with d = S^2 - Q: d = 0, or 10^6 d <= 2 Q, or 10^6 (-d) <= 2 Q - 1.
TraceIsOne(U) ==
  LET S == VecTraceNum(U)
      Q == U.den2
      d == S * S - Q
  IN IF d >= 0 THEN 1000000 * d <= 2 * Q ELSE 1000000 * (0 - d) <= 2 * Q - 1

\* C16: in Liouville mode (Lindblad terms present) the vector a completed
\* time_step leaves behind has |tr rho - 1| < 1e-6.
C16_TraceOneAfterTimeStep ==
  (lastS.op = "time_step" /\ lastS.outcome = "solved" /\ lastS.lindblad # 0)
    => TraceIsOne(ts.U)

\* C18: when time_step runs while an Instance holds a ts_monitor callable,
\* toolkit.c's ts_monitor is the monitor of that run, its context is the
\* Instance, and the callable is called with (instance, step, time) for
\* every step of the run.
C18_MonitorCalledEveryStep ==
  [][ ( /\ calls' = calls + 1
        /\ lastS'.op = "time_step"
        /\ lastS'.outcome = "solved" )
      => \A i \in 1 .. Len(instances) :
           instances[i].ts_monitor_callback # "Py_None"
             => \A k \in 1 .. ts'.steps :
                  [callback |-> instances[i].ts_monitor_callback,
                   instance |-> i, step |-> k, time |-> k]
                     \in ts_monitor(ts', instances) ]_vars

\* C19: create_qubits on an Instance whose num_qubits is zero or negative
\* raises an error and leaves the Instance as it was.
C19_NonPositiveQubitsRejected ==
  [][ ( /\ lastT'.api = "create_qubits"
        /\ create_calls' # create_calls
        /\ instances[lastT'.obj].num_qubits <= 0 )
      => (lastT'.err # "none" /\ instances' = instances) ]_vars

\* C20: a time_step that runs with scheduled gates and with Lindblad terms
\* leaves a TS on which the gate event function (direction -1) is still
\* registered after the normalization event (direction 0) was set.
C20_BothEventsRegistered ==
  [][ ( /\ calls' = calls + 1
        /\ lastS'.op = "time_step"
        /\ lastS'.outcome = "solved"
        /\ _num_quantum_gates > 0
        /\ _lindblad_terms # 0 )
      => ts'.event = "_QG_EventFunction" ]_vars

\* C11: when one string of an h_str array does not parse, no term of that
\* array has been handed to the Hamiltonian builder: the strings before the
\* failing one leave nothing behind.
C11_NoPartialMutation ==
  (lastJson.h_str # << >> /\ ~lastJson.ok) => lastJson.handed = << >>

\* the loops of SumInputs with a <= b whose expression parses at every index,
\* each with the text of its expression at the indices a .. b:
\*   _SUM[i,0,2, 1.0*X{i}]            1.0*X0, 1.0*X1, 1.0*X2
\*   _SUM[i,1,1,c*Z{i}]               c*Z1
\*   _SUM[j,1,2,w*X{j}*X{j+1}||D{j}]  w*X1*X2||D1, w*X2*X3||D2
\*   _SUM[i,0,1,1.0*X{i+1}]           1.0*X1, 1.0*X2
SumCases ==
  { [text |-> <<"_", "S", "U", "M", "[", "i", ",", "0", ",", "2", ",", " ", "1", ".", "0", "*", "X", "{", "i", "}", "]">>,
     children |-> <<<<"1", ".", "0", "*", "X", "0">>, <<"1", ".", "0", "*", "X", "1">>, <<"1", ".", "0", "*", "X", "2">>>>],
    [text |-> <<"_", "S", "U", "M", "[", "i", ",", "1", ",", "1", ",", "c", "*", "Z", "{", "i", "}", "]">>,
     children |-> <<<<"c", "*", "Z", "1">>>>],
    [text |-> <<"_", "S", "U", "M", "[", "j", ",", "1", ",", "2", ",", "w", "*", "X", "{", "j", "}", "*", "X", "{", "j", "+", "1", "}", "|", "|", "D", "{", "j", "}", "]">>,
     children |-> <<<<"w", "*", "X", "1", "*", "X", "2", "|", "|", "D", "1">>, <<"w", "*", "X", "2", "*", "X", "3", "|", "|", "D", "2">>>>],
    [text |-> <<"_", "S", "U", "M", "[", "i", ",", "0", ",", "1", ",", "1", ".", "0", "*", "X", "{", "i", "+", "1", "}", "]">>,
     children |-> <<<<"1", ".", "0", "*", "X", "1">>, <<"1", ".", "0", "*", "X", "2">>>>] }

\* the terms the texts of the children parse to
SumChildren ==
  [c \in SumCases |->
     [k \in 1 .. Len(c.children) |->
        HamiltonianParsingUtil_tryParse(c.children[k], VarsMap, TRUE)]]

\* C12: parsing _SUM[i,a,b,expr] with a <= b gives a sum term with b-a+1
\* children in increasing index order, the k-th child being the parse of
\* expr with every placeholder replaced by its value at that index.
C12_SumUnrolledInclusive ==
  \A c \in SumCases :
    lastParse.input = c.text => lastParse.result = HamiltonianSumTerm(SumChildren[c])

\* the texts of DistributiveInputs read as c*(A+B)||Ch or c*(A-B)||Ch: the
\* coefficient c in units of 1/CoefUnits (w = 0.5, c = 2.0), the sign written
\* between A and B, the operators of A and of B, and the channel
\*   0.5*(X0+Y0)||D1      c*(X0-X1)||U0      c*(X0+X1)      w*(Z0-Z1)
\*   c*(X0*X1-Y0*Y1)||D0
DistributiveCases ==
  { [text |-> <<"0", ".", "5", "*", "(", "X", "0", "+", "Y", "0", ")", "|", "|", "D", "1">>,
     kind |-> "timedep", channel |-> <<"D", "1">>, c |-> 1, sign |-> 1,
     A |-> <<<<<<"X">>, 0>>>>, B |-> <<<<<<"Y">>, 0>>>>],
    [text |-> <<"c", "*", "(", "X", "0", "-", "X", "1", ")", "|", "|", "U", "0">>,
     kind |-> "timedep", channel |-> <<"U", "0">>, c |-> 4, sign |-> -1,
     A |-> <<<<<<"X">>, 0>>>>, B |-> <<<<<<"X">>, 1>>>>],
    [text |-> <<"c", "*", "(", "X", "0", "+", "X", "1", ")">>,
     kind |-> "static", channel |-> << >>, c |-> 4, sign |-> 1,
     A |-> <<<<<<"X">>, 0>>>>, B |-> <<<<<<"X">>, 1>>>>],
    [text |-> <<"w", "*", "(", "Z", "0", "-", "Z", "1", ")">>,
     kind |-> "static", channel |-> << >>, c |-> 1, sign |-> -1,
     A |-> <<<<<<"Z">>, 0>>>>, B |-> <<<<<<"Z">>, 1>>>>],
    [text |-> <<"c", "*", "(", "X", "0", "*", "X", "1", "-", "Y", "0", "*", "Y", "1", ")", "|", "|", "D", "0">>,
     kind |-> "timedep", channel |-> <<"D", "0">>, c |-> 4, sign |-> -1,
     A |-> <<<<<<"X">>, 0>>, <<<<"X">>, 1>>>>, B |-> <<<<<<"Y">>, 0>>, <<<<"Y">>, 1>>>>] }

\* C13: parsing c*(A+B)||Ch or c*(A-B)||Ch gives a sum of exactly two terms
\* on channel Ch, the first with coefficient c and operator A, the second
\* with coefficient +c or -c, as the sign between A and B says, and operator
\* B; the static form without ||Ch distributes the same way.
C13_Distributes ==
  \A d \in DistributiveCases :
    lastParse.input = d.text
      => lastParse.result =
           HamiltonianSumTerm(<<Term(d.kind, d.channel, d.c, d.A, << >>),
                                Term(d.kind, d.channel, d.sign * d.c, d.B, << >>)>>)

\* c*(X0-X1)||U0 was parsed into two terms on U0, the second with -c
C13_Witness ==
  /\ lastParse.input = <<"c", "*", "(", "X", "0", "-", "X", "1", ")", "|", "|", "U", "0">>
  /\ lastParse.result.kind = "sum"
  /\ Len(lastParse.result.terms) = 2
  /\ lastParse.result.terms[2].coef = 0 - 2 * CoefUnits
  /\ lastParse.result.terms[2].channel = <<"U", "0">>

C15_ParseOfSerializedIsTerm ==
  ( /\ lastApply.op = "collect"
    /\ lastApply.outcome = "done"
    /\ lastApply.term.kind \in {"static", "timedep"}
    /\ Len(lastApply.term.ops) \in {1, 2} )
  => HamiltonianParsingUtil_tryParse(
       IF lastApply.term.kind = "static" THEN lastApply.staticH
       ELSE lastApply.ctrlH[1],
       VarsMap, NDEBUG) = lastApply.term

\* C17: apply on a static or a time-dependent term with three or more
\* operators is rejected with an error and posts nothing to the executor, and
\* every term posted carries exactly one or exactly two operators.
C17_AtMostTwoOperators ==
  /\ ( /\ lastApply.op = "apply"
       /\ lastApply.term.kind \in {"static", "timedep"}
       /\ Len(lastApply.term.ops) > 2 )
     => /\ lastApply.outcome \in {"error", "abort"}
        /\ Len(executor) = lastApply.posted_before
  /\ \A k \in 1 .. Len(executor) : Len(executor[k].opList) \in {1, 2}

\* the loops of SumInputs whose body parses at the first index and does not
\* parse at a later one: _SUM[i,0,2,1.0*X{i}*Y{1-i}] gives 1.0*X2*Y-1 at
\* i = 2
LaterIndexFailsInputs ==
  { <<"_", "S", "U", "M", "[", "i", ",", "0", ",", "2", ",", "1", ".", "0", "*", "X", "{", "i", "}", "*", "Y", "{", "1", "-", "i", "}", "]">> }

\* C29: when the body of a _SUM parses for the first loop value and fails to
\* parse for a later one, no term is returned: the parser neither aborts nor
\* returns a sum with a missing child.
C29_LaterIndexFailureReturnsNoTerm ==
  lastParse.input \in LaterIndexFailsInputs => lastParse.result = nullptr

\* C27: the calls made into the library alternate, starting with
\* QuaC_initialize: the first call is QuaC_initialize, and no call is
\* followed by the same call.
C27_InitializeFinalizeAlternate ==
  /\ Len(QuaC_calls) = 1 => QuaC_calls[1] = "QuaC_initialize"
  /\ Len(QuaC_calls) = 2 => QuaC_calls[1] # QuaC_calls[2]

\* C28: when an Instance is deallocated, the operators destroyed are exactly
\* those of the array create_qubits allocated for it: indices 0 to
\* allocated - 1 and no other index.
C28_DeallocDestroysWhatWasCreated ==
  lastDealloc.obj # 0
    => lastDealloc.destroyed = 0 .. (lastDealloc.allocated - 1)

\* C30: initialize() reads sys.argv only at indices below its length; when
\* sys.argv is missing or empty it reads no element and argv[0] is "quac".
C30_ArgvReadsWithinList ==
  lastArgv.argc > 0
    => /\ \A i \in lastArgv.reads :
            lastArgv.argl.present /\ i < Len(lastArgv.argl.items)
       /\ (~lastArgv.argl.present \/ lastArgv.argl.items = << >>)
            => (lastArgv.reads = {} /\ lastArgv.argv = <<"quac">>)

\* C26: in steady_state every process follows the same control path: after
\* the call either all processes have stopped or all have gone on, and no
\* process waits in a collective operation that another one never enters.
C26_SteadyStateSameControlPath ==
  lastS.op = "steady_state"
    => /\ (alive = Procs \/ alive = {})
       /\ blocked = {}


\* C22: after a time_step in Liouville mode that made at least one step, the
\* normalization event is the event of the integrator, its post-event function
\* has run once per accepted step, and the solution of the integrator is the
\* normalized vector: its 2-norm is 1.
C22_NormalizedAfterEveryStep ==
  (lastS.op = "time_step" /\ lastS.outcome = "solved" /\ lastS.lindblad # 0
     /\ ts.steps >= 1)
    => /\ ts.event = "_Normalize_EventFunction"
       /\ ts.postevent = "_Normalize_PostEventFunction"
       /\ ts.postevent_calls = ts.steps
       /\ VecNorm2Num(ts.U) = ts.U.den2

\* a Liouville run of two steps or more that ends with population on both of
\* the lowest levels
C22_Witness ==
  /\ lastS.op = "time_step" /\ lastS.outcome = "solved" /\ lastS.lindblad # 0
  /\ ts.steps >= 2
  /\ ts.U.v[1] > 0 /\ ts.U.v[2] > 0
  /\ ts.postevent_calls = ts.steps


\* the gates of the schedule whose time a run of the given number of steps
\* reaches, in the order of their times
GatesDue(gates, steps) ==
  [k \in 1 .. (IF gates < steps THEN gates ELSE steps) |-> k]

\* C21: after a time_step with gates scheduled, the gates applied during the
\* run are the scheduled gates whose time is at most the final time, each
\* once and in the order of their times, with or without Lindblad terms.
C21_ScheduledGatesApplied ==
  (lastS.op = "time_step" /\ lastS.outcome = "solved" /\ ts.gates_scheduled > 0)
    => ts.gates_applied = GatesDue(ts.gates_scheduled, ts.steps)


\* C23: when the Jacobian callback runs in a time_step, it rebuilds the
\* matrix in the mode time_step selected: with Lindblad terms from full_A
\* with the factors (D,1) and (1,D) of the two Kronecker contributions,
\* without from ham_A with the operator alone, factors (1,1).
C23_RHSRebuildsInSelectedMode ==
  (lastS.op = "time_step" /\ lastS.outcome = "solved" /\ ts.rhs.called)
    => IF lastS.lindblad # 0
       THEN /\ ts.rhs.copied = "full_A"
            /\ ts.rhs.factors = { <<total_levels, 1>>, <<1, total_levels>> }
       ELSE /\ ts.rhs.copied = "ham_A"
            /\ ts.rhs.factors = { <<1, 1>> }

\* C24: in both modes the positions the Jacobian callback writes are among
\* the positions time_step added a zero at before it assembled solve_A.
C24_RHSWritesZeroedPositions ==
  (lastS.op = "time_step" /\ lastS.outcome = "solved" /\ ts.rhs.called)
    => ts.rhs.written \subseteq ts.zeroed


\* C25: once full_A has been assembled, no later steady_state or time_step
\* call adds a value to row 0 of full_A at a position that holds no entry
\* yet.
C25_NoNewPositionAfterAssembly ==
  [][ ("full_A" \in assembled /\ calls' = calls + 1
         /\ lastS'.op \in {"steady_state", "time_step"})
        => nonzeros' \subseteq nonzeros ]_vars

=============================================================================
